---- MODULE Spec2Model ----
(***************************************************************************)
(* Model of src/native/libs/System.Security.Cryptography.Native/openssl.c  *)
(* (dotnet runtime): the one-time OpenSSL initialization                    *)
(* (CryptoNative_EnsureOpenSslInitialized and the two generation specific   *)
(* sequences), the extension-data callbacks, and the certificate name       *)
(* queries CryptoNative_GetX509NameInfo / CryptoNative_CheckX509Hostname /  *)
(* CryptoNative_CheckX509IpAddress.                                         *)
(***************************************************************************)
EXTENDS Integers, Sequences, FiniteSets, TLC

(***************************************************************************)
(* Bounds of the model.                                                     *)
(***************************************************************************)
\* number of threads that call the initialization entry point
NumThreads == 3
\* calls of the entry point the threads make in all
MaxCalls == 4
\* largest lock count CRYPTO_num_locks reports whose array is allocated
MaxLocks == 2
\* longest Subject / Issuer name, in entries
MaxNameLen == 3
\* longest alternative-name list, in entries
MaxAltLen == 2
\* library objects that can carry ex_data
MaxCtx == 3
\* OCSP responses that can be allocated
MaxResp == 2
\* longest byte string an accessor copies out
MaxBytes == 2

Threads == 1..NumThreads
NULL == "NULL"

(***************************************************************************)
(* Program constants.                                                       *)
(***************************************************************************)
\* static int32_t g_initStatus = 1;
InitStatusPlaceholder == 1
\* int g_x509_ocsp_index = -1; int g_ssl_sess_cert_index = -1;
EX_UNREGISTERED == -1
\* class indices handed to CRYPTO_get_ex_new_index
LEGACY_EX_INDEX_X509 == 10
LEGACY_EX_INDEX_SSL_SESSION == 3
MODERN_EX_INDEX_X509 == 3
MODERN_EX_INDEX_SSL_SESSION == 2
\* a lock count for which sizeof(pthread_mutex_t) * numLocks does not fit size_t
\* on a 32-bit target: (2^32 - 1) \div 24 = 178956970
SizeMaxDivMutex == 178956970
HugeLocks == 200000000

VARIABLES
    generation,            \* "Legacy" (OpenSSL 1.0) or "Modern" (1.1 / 3.0): which library is loaded
    ndebug,                \* TRUE when assert() is compiled out
    aborted,               \* an assert() fired: the process is gone
    once_control,          \* g_initializeShim (pthread_once_t)
    g_initStatus,
    g_x509_ocsp_index,
    g_ssl_sess_cert_index,
    g_locks,               \* NULL or the address of the mutex array
    g_initLock,            \* 0 or the thread that holds the mutex
    locksMem,              \* the heap block g_locks points (or pointed) to
    lib,                   \* state kept inside the OpenSSL library
    pc,                    \* where each thread is
    calls,                 \* number of calls of the entry point made so far
    retval,                \* {} or the value the thread's last call returned
    core,                  \* locals of EnsureOpenSslInitializedCore / EnsureOpenSsl10Initialized
    hist,                  \* history: what has been executed so far
    api,                   \* the last call of a certificate query, until its caller took the result
    liveAltNames,          \* decoded GENERAL_NAMES lists that are allocated and not freed
    ctx,                   \* library objects that carry ex_data: [state, class, data]
    resp,                  \* OCSP_RESPONSE objects: [state, frees]
    exLast                 \* the last ex_data operation the library performed, and whether an
                           \* object holding a response has been duplicated so far

initVars == <<generation, ndebug, aborted, once_control, g_initStatus, g_x509_ocsp_index,
              g_ssl_sess_cert_index, g_locks, g_initLock, locksMem, lib, pc, calls, retval,
              core, hist>>

(***************************************************************************)
(* pthread_once(&g_initializeShim, EnsureOpenSslInitializedOnce)            *)
(***************************************************************************)
\* a caller that is let through although the routine has not completed
PthreadOnceReturns_NoWait(ctl) == ctl # "INIT"
\* the caller returns from pthread_once only when the routine has completed
PthreadOnceReturns(ctl) == ctl = "DONE"

\* every caller that does not find the routine completed runs it
PthreadOnceRuns_Unguarded(ctl) == ctl # "DONE"
\* the caller that finds the control untouched runs the routine
PthreadOnceRuns(ctl) == ctl = "INIT"

\* the status variable keeps the value of the static initializer
EnsureOpenSslInitializedOnce_Dropped(ret) == InitStatusPlaceholder
\* g_initStatus = EnsureOpenSslInitializedCore();
EnsureOpenSslInitializedOnce(ret) == ret

\* InitState of the specification, read off the once control and the status
InitState ==
    CASE once_control = "INIT" -> "Uninitialized"
      [] once_control = "INPROGRESS" -> "Initializing"
      [] once_control = "DONE" /\ g_initStatus = 0 -> "Ready"
      [] OTHER -> "Failed"

\* CRYPTO_get_ex_new_index(class_index, ...): the next index of the class, or -1
ExBase == IF generation = "Legacy" THEN 0 ELSE 1
ExNextIndex(regs, class) ==
    ExBase + Cardinality({i \in DOMAIN regs : regs[i].class = class /\ regs[i].idx # -1})
CRYPTO_get_ex_new_index(regs, class, dup, free, ok) ==
    [class |-> class, idx |-> IF ok THEN ExNextIndex(regs, class) ELSE -1,
     dup |-> dup, free |-> free]

\* multiply_s(sizeof(pthread_mutex_t), (size_t)numLocks, &allocationSize)
multiply_s(numLocks) == numLocks <= SizeMaxDivMutex

NumLocksChoices == (0..MaxLocks) \cup {HugeLocks}

CoreLocals == [ret |-> 0, numLocks |-> 0, locksInitialized |-> 0]

InitInit ==
    /\ generation \in {"Legacy", "Modern"}
    /\ ndebug \in BOOLEAN
    /\ aborted = FALSE
    /\ once_control = "INIT"
    /\ g_initStatus = InitStatusPlaceholder
    /\ g_x509_ocsp_index = EX_UNREGISTERED
    /\ g_ssl_sess_cert_index = EX_UNREGISTERED
    /\ g_locks = NULL
    /\ g_initLock = 0
    /\ locksMem = [n |-> 0, st |-> <<>>, destroys |-> <<>>, frees |-> 0]
    /\ lib = [lockingCallback |-> NULL, exRegs |-> <<>>, initSsl |-> "none", atexit |-> 0]
    /\ pc = [t \in Threads |-> "idle"]
    /\ calls = 0
    /\ retval = [t \in Threads |-> {}]
    /\ core = [t \in Threads |-> CoreLocals]
    /\ hist = [coreRuns |-> 0, mallocs |-> 0, callbackInstalls |-> 0, statusWrites |-> 0,
               coreRet |-> {}, contenders |-> 0]

(***************************************************************************)
(* CryptoNative_EnsureOpenSslInitialized, one step at a time                *)
(***************************************************************************)
\* a thread enters CryptoNative_EnsureOpenSslInitialized
Call(t) ==
    /\ ~aborted /\ pc[t] = "idle" /\ calls < MaxCalls
    /\ pc' = [pc EXCEPT ![t] = "once"]
    /\ calls' = calls + 1
    /\ UNCHANGED <<generation, ndebug, aborted, once_control, g_initStatus, g_x509_ocsp_index,
                   g_ssl_sess_cert_index, g_locks, g_initLock, locksMem, lib, retval, core, hist>>

\* pthread_once: run the routine, or wait for it and go on
PthreadOnce(t) ==
    /\ ~aborted /\ pc[t] = "once"
    /\ IF PthreadOnceRuns(once_control)
       THEN /\ once_control' = "INPROGRESS"
            /\ pc' = [pc EXCEPT ![t] = "core"]
            /\ hist' = [hist EXCEPT !.coreRuns = @ + 1,
                                     !.contenders = Cardinality({u \in Threads : pc[u] = "once"})]
       ELSE /\ PthreadOnceReturns(once_control)
            /\ pc' = [pc EXCEPT ![t] = "read"]
            /\ UNCHANGED <<once_control, hist>>
    /\ UNCHANGED <<generation, ndebug, aborted, g_initStatus, g_x509_ocsp_index,
                   g_ssl_sess_cert_index, g_locks, g_initLock, locksMem, lib, calls, retval, core>>

\* EnsureOpenSslInitializedCore up to the choice of the generation
EnsureOpenSslInitializedCore(t) ==
    /\ ~aborted /\ pc[t] = "core"
    /\ core' = [core EXCEPT ![t] = CoreLocals]
    /\ pc' = [pc EXCEPT ![t] = IF generation = "Legacy" THEN "l_begin" ELSE "m_init"]
    /\ UNCHANGED <<generation, ndebug, aborted, once_control, g_initStatus, g_x509_ocsp_index,
                   g_ssl_sess_cert_index, g_locks, g_initLock, locksMem, lib, calls, retval, hist>>

\* the mode bit that asks for a lock; without it the request is an unlock
CRYPTO_LOCK == 1
\* the modes the library passes: lock or unlock (2), for reading (4) or writing (8)
LockModes == {5, 6, 9, 10}

\* LockingCallback(mode, n, file, line), called by the library once it is installed:
\* pthread_mutex_lock or pthread_mutex_unlock on &g_locks[n]. The library asks to unlock
\* only what it locked, and a request for a held mutex waits. With g_locks null the
\* address is not a mutex: the process is killed, or the call comes back, and then a
\* result other than 0 fires the assert where asserts are compiled in.
LockingCallback(mode, n) ==
    /\ ~aborted /\ lib.lockingCallback = "LockingCallback"
    /\ IF g_locks = NULL
       THEN /\ \E killed \in BOOLEAN : aborted' = killed
            /\ UNCHANGED locksMem
       ELSE /\ IF mode % 2 = CRYPTO_LOCK
               THEN /\ locksMem.st[n] = "init"
                    /\ locksMem' = [locksMem EXCEPT !.st[n] = "held"]
               ELSE /\ locksMem.st[n] = "held"
                    /\ locksMem' = [locksMem EXCEPT !.st[n] = "init"]
            /\ UNCHANGED aborted
    /\ UNCHANGED <<generation, ndebug, once_control, g_initStatus, g_x509_ocsp_index,
                   g_ssl_sess_cert_index, g_locks, g_initLock, lib, pc, calls, retval, core,
                   hist, api, liveAltNames, ctx, resp, exLast>>

\* EnsureOpenSsl10Initialized: take g_initLock, count the locks, allocate the array
Ssl10Begin(t) ==
    /\ ~aborted /\ pc[t] = "l_begin" /\ g_initLock = 0
    /\ g_initLock' = t
    /\ IF g_locks # NULL
       THEN /\ pc' = [pc EXCEPT ![t] = "l_done"]
            /\ UNCHANGED <<aborted, g_locks, locksMem, core, hist>>
       ELSE \E numLocks \in NumLocksChoices, mallocOk \in BOOLEAN :
            IF numLocks <= 0
            THEN /\ aborted' = ~ndebug
                 /\ core' = [core EXCEPT ![t].numLocks = numLocks, ![t].ret = 1]
                 /\ pc' = [pc EXCEPT ![t] = "l_done"]
                 /\ UNCHANGED <<g_locks, locksMem, hist>>
            ELSE IF ~multiply_s(numLocks) \/ ~mallocOk
            THEN /\ core' = [core EXCEPT ![t].numLocks = numLocks, ![t].ret = 2]
                 /\ pc' = [pc EXCEPT ![t] = "l_done"]
                 /\ UNCHANGED <<aborted, g_locks, locksMem, hist>>
            ELSE /\ g_locks' = "array"
                 /\ locksMem' = [n |-> numLocks,
                                 st |-> [i \in 0..(numLocks - 1) |-> "raw"],
                                 destroys |-> [i \in 0..(numLocks - 1) |-> 0],
                                 frees |-> 0]
                 /\ hist' = [hist EXCEPT !.mallocs = @ + 1]
                 /\ core' = [core EXCEPT ![t].numLocks = numLocks]
                 /\ pc' = [pc EXCEPT ![t] = "l_mutex"]
                 /\ UNCHANGED aborted
    /\ UNCHANGED <<generation, ndebug, once_control, g_initStatus, g_x509_ocsp_index,
                   g_ssl_sess_cert_index, lib, calls, retval>>

\* one iteration of the pthread_mutex_init loop, or its exit
Ssl10MutexInit(t) ==
    /\ ~aborted /\ pc[t] = "l_mutex"
    /\ LET i == core[t].locksInitialized IN
       IF i < core[t].numLocks
       THEN \E ok \in BOOLEAN :
            IF ok
            THEN /\ locksMem' = [locksMem EXCEPT !.st[i] = "init"]
                 /\ core' = [core EXCEPT ![t].locksInitialized = i + 1]
                 /\ UNCHANGED pc
            ELSE /\ core' = [core EXCEPT ![t].ret = 3]
                 /\ pc' = [pc EXCEPT ![t] = "l_done"]
                 /\ UNCHANGED locksMem
       ELSE /\ pc' = [pc EXCEPT ![t] = "l_callback"]
            /\ UNCHANGED <<locksMem, core>>
    /\ UNCHANGED <<generation, ndebug, aborted, once_control, g_initStatus, g_x509_ocsp_index,
                   g_ssl_sess_cert_index, g_locks, g_initLock, lib, calls, retval, hist>>

\* CRYPTO_set_locking_callback(LockingCallback)
Ssl10SetCallback(t) ==
    /\ ~aborted /\ pc[t] = "l_callback"
    /\ lib' = [lib EXCEPT !.lockingCallback = "LockingCallback"]
    /\ hist' = [hist EXCEPT !.callbackInstalls = @ + 1]
    /\ pc' = [pc EXCEPT ![t] = "l_rand"]
    /\ UNCHANGED <<generation, ndebug, aborted, once_control, g_initStatus, g_x509_ocsp_index,
                   g_ssl_sess_cert_index, g_locks, g_initLock, locksMem, calls, retval, core>>

\* RAND_poll()
Ssl10RandPoll(t) ==
    /\ ~aborted /\ pc[t] = "l_rand"
    /\ \E randPollResult \in {0, 1} :
       IF randPollResult < 1
       THEN /\ core' = [core EXCEPT ![t].ret = 4]
            /\ pc' = [pc EXCEPT ![t] = "l_done"]
       ELSE /\ pc' = [pc EXCEPT ![t] = "l_register"]
            /\ UNCHANGED core
    /\ UNCHANGED <<generation, ndebug, aborted, once_control, g_initStatus, g_x509_ocsp_index,
                   g_ssl_sess_cert_index, g_locks, g_initLock, locksMem, lib, calls, retval, hist>>

\* the two CRYPTO_get_ex_new_index calls of a generation
RegisterExData(classX509, classSession, okX509, okSession) ==
    LET r1 == CRYPTO_get_ex_new_index(lib.exRegs, classX509,
                                      "ExDataDupOcspResponse", "ExDataFreeOcspResponse", okX509)
        regs1 == Append(lib.exRegs, r1)
        r2 == CRYPTO_get_ex_new_index(regs1, classSession, "ExDataDupNoOp", "ExDataFreeNoOp",
                                      okSession)
    IN  /\ g_x509_ocsp_index' = r1.idx
        /\ g_ssl_sess_cert_index' = r2.idx
        /\ lib' = [lib EXCEPT !.exRegs = Append(regs1, r2)]

\* OPENSSL_add_all_algorithms_conf, ERR_load_crypto_strings, the two registrations
Ssl10Register(t) ==
    /\ ~aborted /\ pc[t] = "l_register"
    /\ \E okX509 \in BOOLEAN, okSession \in BOOLEAN :
       RegisterExData(LEGACY_EX_INDEX_X509, LEGACY_EX_INDEX_SSL_SESSION, okX509, okSession)
    /\ pc' = [pc EXCEPT ![t] = "l_done"]
    /\ UNCHANGED <<generation, ndebug, aborted, once_control, g_initStatus, g_locks, g_initLock,
                   locksMem, calls, retval, core, hist>>

\* the cleanup destroying every slot of the array, initialized or not
Ssl10Done_DestroysAll(t) ==
    /\ ~aborted /\ pc[t] = "l_done"
    /\ IF core[t].ret # 0 /\ g_locks # NULL
       THEN /\ locksMem' =
                 [locksMem EXCEPT
                    !.st = [i \in DOMAIN @ |-> "destroyed"],
                    !.destroys = [i \in DOMAIN @ |-> @[i] + 1],
                    !.frees = @ + 1]
            /\ g_locks' = NULL
       ELSE UNCHANGED <<locksMem, g_locks>>
    /\ g_initLock' = 0
    /\ pc' = [pc EXCEPT ![t] = "core_end"]
    /\ UNCHANGED <<generation, ndebug, aborted, once_control, g_initStatus, g_x509_ocsp_index,
                   g_ssl_sess_cert_index, lib, calls, retval, core, hist>>
\* done: cleanup on failure, release g_initLock, return ret
Ssl10Done(t) ==
    /\ ~aborted /\ pc[t] = "l_done"
    /\ IF core[t].ret # 0 /\ g_locks # NULL
       THEN /\ locksMem' =
                 [locksMem EXCEPT
                    !.st = [i \in DOMAIN @ |-> IF i <= core[t].locksInitialized - 1
                                                THEN "destroyed" ELSE @[i]],
                    !.destroys = [i \in DOMAIN @ |-> IF i <= core[t].locksInitialized - 1
                                                      THEN @[i] + 1 ELSE @[i]],
                    !.frees = @ + 1]
            /\ g_locks' = NULL
       ELSE UNCHANGED <<locksMem, g_locks>>
    /\ g_initLock' = 0
    /\ pc' = [pc EXCEPT ![t] = "core_end"]
    /\ UNCHANGED <<generation, ndebug, aborted, once_control, g_initStatus, g_x509_ocsp_index,
                   g_ssl_sess_cert_index, lib, calls, retval, core, hist>>

\* EnsureOpenSsl11Initialized: OPENSSL_init_ssl(...), its result is not looked at
Ssl11InitSsl(t) ==
    /\ ~aborted /\ pc[t] = "m_init"
    /\ \E ok \in BOOLEAN : lib' = [lib EXCEPT !.initSsl = IF ok THEN "ok" ELSE "failed"]
    /\ pc' = [pc EXCEPT ![t] = "m_atexit"]
    /\ UNCHANGED <<generation, ndebug, aborted, once_control, g_initStatus, g_x509_ocsp_index,
                   g_ssl_sess_cert_index, g_locks, g_initLock, locksMem, calls, retval, core,
                   hist>>

\* atexit(HandleShutdown)
Ssl11Atexit(t) ==
    /\ ~aborted /\ pc[t] = "m_atexit"
    /\ lib' = [lib EXCEPT !.atexit = @ + 1]
    /\ pc' = [pc EXCEPT ![t] = "m_register"]
    /\ UNCHANGED <<generation, ndebug, aborted, once_control, g_initStatus, g_x509_ocsp_index,
                   g_ssl_sess_cert_index, g_locks, g_initLock, locksMem, calls, retval, core,
                   hist>>

\* the two registrations of the 1.1 sequence, and return 0
Ssl11Register(t) ==
    /\ ~aborted /\ pc[t] = "m_register"
    /\ \E okX509 \in BOOLEAN, okSession \in BOOLEAN :
       RegisterExData(MODERN_EX_INDEX_X509, MODERN_EX_INDEX_SSL_SESSION, okX509, okSession)
    /\ core' = [core EXCEPT ![t].ret = 0]
    /\ pc' = [pc EXCEPT ![t] = "core_end"]
    /\ UNCHANGED <<generation, ndebug, aborted, once_control, g_initStatus, g_locks, g_initLock,
                   locksMem, calls, retval, hist>>

\* the tail of EnsureOpenSslInitializedCore: the two asserts, return ret
CoreEnd(t) ==
    /\ ~aborted /\ pc[t] = "core_end"
    /\ IF core[t].ret = 0 /\ ~ndebug
          /\ (g_x509_ocsp_index = -1 \/ g_ssl_sess_cert_index = -1)
       THEN /\ aborted' = TRUE
            /\ UNCHANGED pc
       ELSE /\ pc' = [pc EXCEPT ![t] = "once_end"]
            /\ UNCHANGED aborted
    /\ UNCHANGED <<generation, ndebug, once_control, g_initStatus, g_x509_ocsp_index,
                   g_ssl_sess_cert_index, g_locks, g_initLock, locksMem, lib, calls, retval,
                   core, hist>>

\* EnsureOpenSslInitializedOnce stores the status; pthread_once marks the control done
OnceEnd(t) ==
    /\ ~aborted /\ pc[t] = "once_end"
    /\ g_initStatus' = EnsureOpenSslInitializedOnce(core[t].ret)
    /\ once_control' = "DONE"
    /\ hist' = [hist EXCEPT !.statusWrites = @ + 1, !.coreRet = @ \cup {core[t].ret}]
    /\ pc' = [pc EXCEPT ![t] = "read"]
    /\ UNCHANGED <<generation, ndebug, aborted, g_x509_ocsp_index, g_ssl_sess_cert_index,
                   g_locks, g_initLock, locksMem, lib, calls, retval, core>>

\* return g_initStatus;
ReturnStatus(t) ==
    /\ ~aborted /\ pc[t] = "read"
    /\ retval' = [retval EXCEPT ![t] = {g_initStatus}]
    /\ pc' = [pc EXCEPT ![t] = "idle"]
    /\ UNCHANGED <<generation, ndebug, aborted, once_control, g_initStatus, g_x509_ocsp_index,
                   g_ssl_sess_cert_index, g_locks, g_initLock, locksMem, lib, calls, core,
                   hist>>

InitStep(t) ==
  /\ UNCHANGED <<api, liveAltNames, ctx, resp, exLast>>
  /\
    \/ Call(t)
    \/ PthreadOnce(t)
    \/ EnsureOpenSslInitializedCore(t)
    \/ Ssl10Begin(t)
    \/ Ssl10MutexInit(t)
    \/ Ssl10SetCallback(t)
    \/ Ssl10RandPoll(t)
    \/ Ssl10Register(t)
    \/ Ssl10Done(t)
    \/ Ssl11InitSsl(t)
    \/ Ssl11Atexit(t)
    \/ Ssl11Register(t)
    \/ CoreEnd(t)
    \/ OnceEnd(t)
    \/ ReturnStatus(t)

(***************************************************************************)
(* ASN.1 strings and their rendering                                        *)
(***************************************************************************)
\* an ASN1_STRING is [type, data]; NULLSTR stands for the null pointer
NULLSTR == [type |-> "NULL", data |-> <<>>]
\* the flags argument of ASN1_STRING_print_ex
ASN1_STRFLGS_UTF8_CONVERT == "ASN1_STRFLGS_UTF8_CONVERT"
ASN1_STRFLGS_NONE == "0"

\* tag2nbyte: bytes per character of a string type, 0 for UTF-8
Tag2NBytes(type) ==
    CASE type = "UTF8STRING" -> 0
      [] type = "BMPSTRING" -> 2
      [] OTHER -> 1

\* the characters (code points) of the data, read at the given width; <<-1>> when malformed
RECURSIVE ReadChars(_, _)
ReadChars(width, data) ==
    IF data = <<>> THEN <<>>
    ELSE IF width = 1 THEN <<Head(data)>> \o ReadChars(width, Tail(data))
    ELSE IF width = 2
         THEN IF Len(data) < 2 THEN <<-1>>
              ELSE <<Head(data) * 256 + data[2]>> \o ReadChars(width, SubSeq(data, 3, Len(data)))
    ELSE IF Head(data) < 128 THEN <<Head(data)>> \o ReadChars(width, Tail(data))
    ELSE IF Head(data) >= 192 /\ Head(data) < 224 /\ Len(data) >= 2
            /\ data[2] >= 128 /\ data[2] < 192
         THEN <<(Head(data) - 192) * 64 + (data[2] - 128)>>
              \o ReadChars(width, SubSeq(data, 3, Len(data)))
    ELSE <<-1>>

\* UTF8_putc for code points below 0x800
Utf8Bytes(c) == IF c < 128 THEN <<c>> ELSE <<192 + (c \div 64), 128 + (c % 64)>>

HexDigit(d) == IF d < 10 THEN 48 + d ELSE 55 + d
\* do_esc_char without escape flags: a byte as is, a wider character as \UXXXX
EscChar(c) ==
    IF c > 255
    THEN <<92, 85, HexDigit(c \div 4096), HexDigit((c \div 256) % 16),
           HexDigit((c \div 16) % 16), HexDigit(c % 16)>>
    ELSE <<c>>

RECURSIVE WriteChars(_, _)
WriteChars(chars, convert) ==
    IF chars = <<>> THEN <<>>
    ELSE (IF convert THEN Utf8Bytes(Head(chars)) ELSE EscChar(Head(chars)))
         \o WriteChars(Tail(chars), convert)

\* ASN1_STRING_print_ex(b, str, flags) into a fresh memory BIO: the bytes the BIO holds
ASN1_STRING_print_ex(str, flags) ==
    LET width == Tag2NBytes(str.type)
        convert == flags = ASN1_STRFLGS_UTF8_CONVERT
        \* a UTF-8 string that is to be converted to UTF-8 is passed through bytewise
        chars == IF convert /\ width = 0 THEN ReadChars(1, str.data)
                 ELSE ReadChars(width, str.data)
        malformed == \E i \in DOMAIN chars : chars[i] = -1
    IN  IF malformed THEN <<>>
        ELSE WriteChars(chars, convert /\ width # 0)

(***************************************************************************)
(* Object identifiers as text                                               *)
(***************************************************************************)
RECURSIVE Decimal(_)
\* the decimal digits of a non-negative number, as character codes
Decimal(n) == IF n < 10 THEN <<48 + n>> ELSE Decimal(n \div 10) \o <<48 + (n % 10)>>

RECURSIVE DottedDecimal(_)
DottedDecimal(arcs) ==
    IF arcs = <<>> THEN <<>>
    ELSE IF Len(arcs) = 1 THEN Decimal(arcs[1])
    ELSE Decimal(Head(arcs)) \o <<46>> \o DottedDecimal(Tail(arcs))

\* the first n elements of a sequence
Prefix(s, n) == SubSeq(s, 1, IF n < Len(s) THEN n ELSE Len(s))

\* OBJ_obj2txt(buf, buf_len, obj, 1): the NUL-terminated buffer and the returned length
OBJ_obj2txt(bufLen, arcs) ==
    LET text == DottedDecimal(arcs)
    IN  [buf |-> Prefix(text, bufLen - 1) \o <<0>>, len |-> Len(text)]

\* static const char szOidUpn[] = "1.3.6.1.4.1.311.20.2.3"; with its terminating NUL
szOidUpn == <<49, 46, 51, 46, 54, 46, 49, 46, 52, 46, 49, 46, 51, 49, 49, 46, 50, 48, 46,
              50, 46, 51, 0>>

RECURSIVE strncmp(_, _, _)
\* strncmp(a, b, n) = 0, for NUL-terminated a and b
strncmp(a, b, n) ==
    IF n = 0 THEN TRUE
    ELSE IF a = <<>> \/ b = <<>> THEN a = <<>> /\ b = <<>>
    ELSE IF Head(a) # Head(b) THEN FALSE
    ELSE IF Head(a) = 0 THEN TRUE
    ELSE strncmp(Tail(a), Tail(b), n - 1)

\* the other-name entry carries the UPN object identifier
IsUpnOid_PrefixCompare(arcs) ==
    LET localOid == OBJ_obj2txt(Len(szOidUpn) + 3, arcs)
    IN  strncmp(localOid.buf, szOidUpn, localOid.len)
\* sizeof(szOidUpn) == cchLocalOid && 0 == strncmp(localOid, szOidUpn, sizeof(szOidUpn))
IsUpnOid(arcs) ==
    LET localOid == OBJ_obj2txt(Len(szOidUpn) + 3, arcs)
        cchLocalOid == 1 + localOid.len
    IN  Len(szOidUpn) = cchLocalOid /\ strncmp(localOid.buf, szOidUpn, Len(szOidUpn))

(***************************************************************************)
(* CryptoNative_GetX509NameInfo                                             *)
(***************************************************************************)
NAME_TYPE_SIMPLE == 0
NAME_TYPE_EMAIL == 1
NAME_TYPE_UPN == 2
NAME_TYPE_DNS == 3
NAME_TYPE_DNSALT == 4
NAME_TYPE_URL == 5

\* a memory BIO holding the rendering of a string, and the null BIO
NULLBIO == [null |-> TRUE, bytes |-> <<>>]
BIO_new_print(str, flags) == [null |-> FALSE, bytes |-> ASN1_STRING_print_ex(str, flags)]

\* forIssuer ? X509_get_issuer_name(x509) : X509_get_subject_name(x509), the other way round
ChosenName_Swapped(x509, forIssuer) == IF forIssuer # 0 THEN x509.subject ELSE x509.issuer
\* forIssuer ? X509_get_issuer_name(x509) : X509_get_subject_name(x509)
ChosenName(x509, forIssuer) == IF forIssuer # 0 THEN x509.issuer ELSE x509.subject

\* X509_get_ext_d2i(x509, forIssuer ? NID_issuer_alt_name : NID_subject_alt_name, NULL, NULL)
ChosenAltNames(x509, forIssuer) == IF forIssuer # 0 THEN x509.ian ELSE x509.san

ScanLocals == [cn |-> NULLSTR, ou |-> NULLSTR, o |-> NULLSTR, e |-> NULLSTR,
               firstRdn |-> NULLSTR]

RECURSIVE SimpleScan_NoBreak(_, _, _)
\* the scan going on after a Common-Name entry
SimpleScan_NoBreak(entries, i, acc) ==
    IF i < 1 THEN acc
    ELSE LET entry == entries[i]
             nid == entry.oid
             str == entry.str
         IN  IF nid = "NULL" \/ str = NULLSTR THEN SimpleScan_NoBreak(entries, i - 1, acc)
             ELSE IF nid = "NID_commonName"
                  THEN SimpleScan_NoBreak(entries, i - 1, [acc EXCEPT !.cn = str])
             ELSE IF nid = "NID_organizationalUnitName"
                  THEN SimpleScan_NoBreak(entries, i - 1, [acc EXCEPT !.ou = str])
             ELSE IF nid = "NID_organizationName"
                  THEN SimpleScan_NoBreak(entries, i - 1, [acc EXCEPT !.o = str])
             ELSE IF nid = "NID_pkcs9_emailAddress"
                  THEN SimpleScan_NoBreak(entries, i - 1, [acc EXCEPT !.e = str])
             ELSE IF acc.firstRdn = NULLSTR
                  THEN SimpleScan_NoBreak(entries, i - 1, [acc EXCEPT !.firstRdn = str])
             ELSE SimpleScan_NoBreak(entries, i - 1, acc)

RECURSIVE SimpleScan(_, _, _)
\* for (int i = X509_NAME_entry_count(name) - 1; i >= 0; --i) { ... }; entries[i] is entry i-1
SimpleScan(entries, i, acc) ==
    IF i < 1 THEN acc
    ELSE LET entry == entries[i]
             nid == entry.oid
             str == entry.str
         IN  IF nid = "NULL" \/ str = NULLSTR THEN SimpleScan(entries, i - 1, acc)
             ELSE IF nid = "NID_commonName" THEN [acc EXCEPT !.cn = str]
             ELSE IF nid = "NID_organizationalUnitName"
                  THEN SimpleScan(entries, i - 1, [acc EXCEPT !.ou = str])
             ELSE IF nid = "NID_organizationName"
                  THEN SimpleScan(entries, i - 1, [acc EXCEPT !.o = str])
             ELSE IF nid = "NID_pkcs9_emailAddress"
                  THEN SimpleScan(entries, i - 1, [acc EXCEPT !.e = str])
             ELSE IF acc.firstRdn = NULLSTR
                  THEN SimpleScan(entries, i - 1, [acc EXCEPT !.firstRdn = str])
             ELSE SimpleScan(entries, i - 1, acc)

\* ASN1_STRING* answer = cn; if (!answer && firstRdn) { ou, else o, else e, else firstRdn }
SimpleAnswer(acc) ==
    IF acc.cn # NULLSTR THEN acc.cn
    ELSE IF acc.firstRdn # NULLSTR
         THEN IF acc.ou # NULLSTR THEN acc.ou
              ELSE IF acc.o # NULLSTR THEN acc.o
              ELSE IF acc.e # NULLSTR THEN acc.e
              ELSE acc.firstRdn
    ELSE NULLSTR

\* the switch that sets expectedType
ExpectedType(nameType) ==
    CASE nameType \in {NAME_TYPE_DNS, NAME_TYPE_DNSALT} -> "GEN_DNS"
      [] nameType \in {NAME_TYPE_SIMPLE, NAME_TYPE_EMAIL} -> "GEN_EMAIL"
      [] nameType = NAME_TYPE_UPN -> "GEN_OTHERNAME"
      [] nameType = NAME_TYPE_URL -> "GEN_URI"
      [] OTHER -> "-1"

\* the switch that picks str out of a GENERAL_NAME of the expected type
AltNameString(altName, nameType) ==
    IF nameType = NAME_TYPE_UPN
    THEN IF altName.hasOther /\ IsUpnOid(altName.oid) THEN altName.str ELSE NULLSTR
    ELSE altName.str

\* the scan giving up at the first entry that yields no string
AltNameScan_StopAtMismatch(entries, i, nameType) ==
    IF i > Len(entries) THEN NULLSTR
    ELSE LET altName == entries[i]
         IN  IF altName.type = ExpectedType(nameType)
             THEN AltNameString(altName, nameType) ELSE NULLSTR
RECURSIVE AltNameScan(_, _, _)
\* for (i = 0; i < sk_GENERAL_NAME_num(altNames); ++i): the str of the first match, or null
AltNameScan(entries, i, nameType) ==
    IF i > Len(entries) THEN NULLSTR
    ELSE LET altName == entries[i]
             str == IF altName.type = ExpectedType(nameType)
                    THEN AltNameString(altName, nameType) ELSE NULLSTR
         IN  IF str # NULLSTR THEN str ELSE AltNameScan(entries, i + 1, nameType)

\* the match leaves without GENERAL_NAMES_free(altNames)
AltMatchReturn_NoFree(str) ==
    [bio |-> BIO_new_print(str, ASN1_STRFLGS_UTF8_CONVERT), step |-> "alt", obtained |-> 1,
     released |-> 0]
\* BIO_new; ASN1_STRING_print_ex; GENERAL_NAMES_free(altNames); return b;
AltMatchReturn(str) ==
    [bio |-> BIO_new_print(str, ASN1_STRFLGS_UTF8_CONVERT), step |-> "alt", obtained |-> 1,
     released |-> 1]

\* the alternative-name block: the answer, or a null BIO with the list bookkeeping
AltNamePhase(x509, nameType, forIssuer) ==
    LET altNames == ChosenAltNames(x509, forIssuer)
    IN  IF ~altNames.present
        THEN [bio |-> NULLBIO, step |-> "none", obtained |-> 0, released |-> 0]
        ELSE LET str == AltNameScan(altNames.entries, 1, nameType)
             IN  IF str # NULLSTR THEN AltMatchReturn(str)
                 ELSE [bio |-> NULLBIO, step |-> "none", obtained |-> 1, released |-> 1]

RECURSIVE LegacyScan_Forward(_, _, _)
\* the scan walking the name in encoding order
LegacyScan_Forward(entries, i, expectedNid) ==
    IF i < 1 THEN NULLSTR
    ELSE LET entry == entries[Len(entries) + 1 - i]
         IN  IF entry.oid = "NULL" \/ entry.str = NULLSTR
             THEN LegacyScan_Forward(entries, i - 1, expectedNid)
             ELSE IF entry.oid = expectedNid THEN entry.str
             ELSE LegacyScan_Forward(entries, i - 1, expectedNid)
RECURSIVE LegacyScan(_, _, _)
\* the reverse scan of the last block: the first entry whose nid is expectedNid
LegacyScan(entries, i, expectedNid) ==
    IF i < 1 THEN NULLSTR
    ELSE LET entry == entries[i]
         IN  IF entry.oid = "NULL" \/ entry.str = NULLSTR
             THEN LegacyScan(entries, i - 1, expectedNid)
             ELSE IF entry.oid = expectedNid THEN entry.str
             ELSE LegacyScan(entries, i - 1, expectedNid)

ExpectedNid(nameType) ==
    CASE nameType = NAME_TYPE_EMAIL -> "NID_pkcs9_emailAddress"
      [] nameType = NAME_TYPE_DNS -> "NID_commonName"
      [] OTHER -> "NID_undef"

\* the argument check at the head of CryptoNative_GetX509NameInfo lets the call go on
NameInfoArgsOk_InitGated(x509, nameType) ==
    /\ InitState = "Ready"
    /\ ~(x509.null \/ nameType < NAME_TYPE_SIMPLE \/ nameType > NAME_TYPE_URL)
NameInfoArgsOk(x509, nameType) ==
    ~(x509.null \/ nameType < NAME_TYPE_SIMPLE \/ nameType > NAME_TYPE_URL)

\* the whole function: [bio, step, obtained, released, readCert]
CryptoNative_GetX509NameInfo(x509, nameType, forIssuer) ==
    IF ~NameInfoArgsOk(x509, nameType)
    THEN [bio |-> NULLBIO, step |-> "rejected", obtained |-> 0, released |-> 0]
    ELSE LET name == ChosenName(x509, forIssuer)
             answer == IF nameType = NAME_TYPE_SIMPLE /\ ~name.null
                       THEN SimpleAnswer(SimpleScan(name.entries, Len(name.entries),
                                                    ScanLocals))
                       ELSE NULLSTR
         IN  IF answer # NULLSTR
             THEN [bio |-> BIO_new_print(answer, ASN1_STRFLGS_UTF8_CONVERT), step |-> "name",
                   obtained |-> 0, released |-> 0]
             ELSE LET alt == AltNamePhase(x509, nameType, forIssuer)
                      legacy == IF nameType \in {NAME_TYPE_EMAIL, NAME_TYPE_DNS} /\ ~name.null
                                THEN LegacyScan(name.entries, Len(name.entries),
                                                ExpectedNid(nameType))
                                ELSE NULLSTR
                  IN  IF ~alt.bio.null THEN alt
                      ELSE IF legacy # NULLSTR
                      THEN [bio |-> BIO_new_print(legacy, ASN1_STRFLGS_NONE),
                            step |-> "legacy", obtained |-> alt.obtained,
                            released |-> alt.released]
                      ELSE [alt EXCEPT !.step = "none"]

(***************************************************************************)
(* CryptoNative_CheckX509Hostname and CryptoNative_CheckX509IpAddress       *)
(***************************************************************************)
\* X509_check_host is called for every hostname, a leading '.' included
HostnameRefused_Never(hostname, cchHostname) == FALSE
\* if (cchHostname > 0 && hostname[0] == '.') return 0;
HostnameRefused(hostname, cchHostname) == cchHostname > 0 /\ hostname.chars[1] = 46

\* the whole function; libResult is what X509_check_host answers when it is called
CryptoNative_CheckX509Hostname(x509, hostname, cchHostname, libResult) ==
    IF x509.null THEN [ret |-> -3, invoked |-> FALSE, flags |-> "none"]
    ELSE IF cchHostname > 0 /\ hostname.null THEN [ret |-> -4, invoked |-> FALSE, flags |-> "none"]
    ELSE IF cchHostname < 0 THEN [ret |-> -5, invoked |-> FALSE, flags |-> "none"]
    ELSE IF HostnameRefused(hostname, cchHostname)
         THEN [ret |-> 0, invoked |-> FALSE, flags |-> "none"]
    ELSE [ret |-> libResult, invoked |-> TRUE, flags |-> "X509_CHECK_FLAG_NO_PARTIAL_WILDCARDS"]

\* memcmp(a, b, n) = 0
memcmp(a, b, n) == Prefix(a, n) = Prefix(b, n)

tolower(c) == IF c >= 65 /\ c <= 90 THEN c + 32 ELSE c

RECURSIVE strncasecmp(_, _, _)
\* strncasecmp(a, b, n) = 0, for NUL-terminated a and b
strncasecmp(a, b, n) ==
    IF n = 0 THEN TRUE
    ELSE IF a = <<>> \/ b = <<>> THEN a = <<>> /\ b = <<>>
    ELSE IF tolower(Head(a)) # tolower(Head(b)) THEN FALSE
    ELSE IF Head(a) = 0 THEN TRUE
    ELSE strncasecmp(Tail(a), Tail(b), n - 1)

RECURSIVE SanIpScan_LowOrderBytes(_, _, _, _)
\* the loop comparing the address with the low-order bytes of an entry of any length
SanIpScan_LowOrderBytes(entries, i, addressBytes, addressBytesLen) ==
    IF i > Len(entries) THEN FALSE
    ELSE LET sanEntry == entries[i]
             ipAddr == sanEntry.str
             n == Len(ipAddr.data)
         IN  IF sanEntry.type # "GEN_IPADD"
             THEN SanIpScan_LowOrderBytes(entries, i + 1, addressBytes, addressBytesLen)
             ELSE IF ipAddr = NULLSTR \/ n < addressBytesLen
             THEN SanIpScan_LowOrderBytes(entries, i + 1, addressBytes, addressBytesLen)
             ELSE IF memcmp(addressBytes.bytes,
                            SubSeq(ipAddr.data, n - addressBytesLen + 1, n), addressBytesLen)
             THEN TRUE
             ELSE SanIpScan_LowOrderBytes(entries, i + 1, addressBytes, addressBytesLen)
RECURSIVE SanIpScan(_, _, _, _)
\* the loop over the subject alternative names: TRUE when an IP entry equals the address
SanIpScan(entries, i, addressBytes, addressBytesLen) ==
    IF i > Len(entries) THEN FALSE
    ELSE LET sanEntry == entries[i]
             ipAddr == sanEntry.str
         IN  IF sanEntry.type # "GEN_IPADD"
             THEN SanIpScan(entries, i + 1, addressBytes, addressBytesLen)
             ELSE IF ipAddr = NULLSTR \/ Len(ipAddr.data) # addressBytesLen
             THEN SanIpScan(entries, i + 1, addressBytes, addressBytesLen)
             ELSE IF memcmp(addressBytes.bytes, ipAddr.data, addressBytesLen) THEN TRUE
             ELSE SanIpScan(entries, i + 1, addressBytes, addressBytesLen)

RECURSIVE SubjectCnScan_FirstOnly(_, _, _, _)
\* the loop looking at the first Common-Name of the subject only
SubjectCnScan_FirstOnly(entries, i, hostname, cchHostname) ==
    IF i > Len(entries) THEN FALSE
    ELSE IF entries[i].oid # "NID_commonName"
         THEN SubjectCnScan_FirstOnly(entries, i + 1, hostname, cchHostname)
    ELSE LET cn == entries[i].str
         IN  /\ Len(cn.data) = cchHostname
             /\ strncasecmp(cn.data \o <<0>>, hostname.chars \o <<0>>, cchHostname)
RECURSIVE SubjectCnScan(_, _, _, _)
\* while ((i = X509_NAME_get_index_by_NID(subject, NID_commonName, i)) >= 0) { ... }
SubjectCnScan(entries, i, hostname, cchHostname) ==
    IF i > Len(entries) THEN FALSE
    ELSE IF entries[i].oid # "NID_commonName"
         THEN SubjectCnScan(entries, i + 1, hostname, cchHostname)
    ELSE LET cn == entries[i].str
         IN  IF Len(cn.data) = cchHostname
                /\ strncasecmp(cn.data \o <<0>>, hostname.chars \o <<0>>, cchHostname)
             THEN TRUE
             ELSE SubjectCnScan(entries, i + 1, hostname, cchHostname)

\* the list is released only when no entry matched
SanRelease_OnlyOnMiss(matched) == IF matched THEN 0 ELSE 1
\* GENERAL_NAMES_free(san) after the loop, whether or not it was left by break
SanRelease(matched) == 1

\* the whole function: [ret, obtained, released, readCert, fallback]
CryptoNative_CheckX509IpAddress(x509, addressBytes, addressBytesLen, hostname, cchHostname) ==
    LET rejected(code) == [ret |-> code, obtained |-> 0, released |-> 0, readCert |-> FALSE,
                           fallback |-> FALSE]
    IN  IF x509.null THEN rejected(-2)
        ELSE IF cchHostname > 0 /\ hostname.null THEN rejected(-3)
        ELSE IF cchHostname < 0 THEN rejected(-4)
        ELSE IF addressBytesLen < 0 THEN rejected(-5)
        ELSE IF addressBytes.null THEN rejected(-6)
        ELSE LET san == x509.san
                 inSan == san.present
                          /\ SanIpScan(san.entries, 1, addressBytes, addressBytesLen)
                 subject == x509.subject
                 inSubject == ~subject.null
                              /\ SubjectCnScan(subject.entries, 1, hostname, cchHostname)
             IN  [ret |-> IF inSan \/ inSubject THEN 1 ELSE 0,
                  obtained |-> IF san.present THEN 1 ELSE 0,
                  released |-> IF san.present THEN SanRelease(inSan) ELSE 0,
                  readCert |-> TRUE,
                  fallback |-> ~inSan]

(***************************************************************************)
(* Certificates the queries are called with                                 *)
(***************************************************************************)
\* the value of the i-th entry of the name a query is about: one string type per position
NameStr(i) ==
    CASE i = 1 -> [type |-> "PRINTABLESTRING", data |-> <<97>>]
      [] i = 2 -> [type |-> "UTF8STRING", data |-> <<195, 169>>]
      [] i = 3 -> [type |-> "BMPSTRING", data |-> <<1, 2>>]
      [] i = 4 -> [type |-> "T61STRING", data |-> <<241>>]
      [] OTHER -> [type |-> "PRINTABLESTRING", data |-> <<96 + i>>]
\* the value of every entry of the name the query is not about
OtherStr == [type |-> "PRINTABLESTRING", data |-> <<122>>]
\* the value of the i-th alternative-name entry
AltStr(i) ==
    CASE i = 1 -> [type |-> "IA5STRING", data |-> <<109>>]
      [] i = 2 -> [type |-> "IA5STRING", data |-> <<233>>]
      [] OTHER -> [type |-> "IA5STRING", data |-> <<109 + i>>]

Nids == {"NID_commonName", "NID_organizationalUnitName", "NID_organizationName",
         "NID_pkcs9_emailAddress", "NID_localityName"}

SeqsUpTo(S, n) == UNION {[1..k -> S] : k \in 0..n}

\* a name whose entries have the given nids in encoding order
NameOf(nids) == [null |-> FALSE,
                 entries |-> [i \in DOMAIN nids |-> [oid |-> nids[i], str |-> NameStr(i)]]]
OtherNameOf(nids) == [null |-> FALSE,
                      entries |-> [i \in DOMAIN nids |-> [oid |-> nids[i], str |-> OtherStr]]]

UpnArcs == <<1, 3, 6, 1, 4, 1, 311, 20, 2, 3>>
AltKinds == {"DNS", "EMAIL", "URI", "IPADD", "UPN", "UPN30", "UPNPREFIX"}
\* a GENERAL_NAME of the given kind carrying the given string
AltEntry(kind, str) ==
    CASE kind = "DNS" -> [type |-> "GEN_DNS", str |-> str, hasOther |-> FALSE, oid |-> <<>>]
      [] kind = "EMAIL" -> [type |-> "GEN_EMAIL", str |-> str, hasOther |-> FALSE, oid |-> <<>>]
      [] kind = "URI" -> [type |-> "GEN_URI", str |-> str, hasOther |-> FALSE, oid |-> <<>>]
      [] kind = "IPADD" -> [type |-> "GEN_IPADD", str |-> str, hasOther |-> FALSE, oid |-> <<>>]
      [] kind = "UPN" -> [type |-> "GEN_OTHERNAME", str |-> str, hasOther |-> TRUE,
                          oid |-> UpnArcs]
      [] kind = "UPN30" -> [type |-> "GEN_OTHERNAME", str |-> str, hasOther |-> TRUE,
                            oid |-> <<1, 3, 6, 1, 4, 1, 311, 20, 2, 30>>]
      [] OTHER -> [type |-> "GEN_OTHERNAME", str |-> str, hasOther |-> TRUE,
                   oid |-> <<1, 3, 6, 1, 4, 1, 311, 20, 2>>]
NoAltNames == [present |-> FALSE, entries |-> <<>>]
AltNamesOf(kinds) == [present |-> TRUE,
                      entries |-> [i \in DOMAIN kinds |-> AltEntry(kinds[i], AltStr(i))]]
OtherAltNames == [present |-> TRUE,
                  entries |-> <<AltEntry("EMAIL", OtherStr), AltEntry("DNS", OtherStr),
                                AltEntry("URI", OtherStr), AltEntry("UPN", OtherStr)>>]

NullCert == [null |-> TRUE, subject |-> [null |-> TRUE, entries |-> <<>>],
             issuer |-> [null |-> TRUE, entries |-> <<>>], san |-> NoAltNames,
             ian |-> NoAltNames]
\* the certificate whose queried side has the given name and list; the other side is fixed
CertFor(forIssuer, name, alt) ==
    IF forIssuer # 0
    THEN [null |-> FALSE, subject |-> OtherNameOf(<<"NID_commonName", "NID_localityName">>),
          issuer |-> name, san |-> OtherAltNames, ian |-> alt]
    ELSE [null |-> FALSE, subject |-> name,
          issuer |-> OtherNameOf(<<"NID_commonName", "NID_localityName">>),
          san |-> alt, ian |-> OtherAltNames]

AllNames == {NameOf(nids) : nids \in SeqsUpTo(Nids, MaxNameLen)}
AllAltNames == {NoAltNames} \cup {AltNamesOf(kinds) : kinds \in SeqsUpTo(AltKinds, MaxAltLen)}
SampleNames == {NameOf(<<>>), NameOf(<<"NID_commonName">>),
                NameOf(<<"NID_pkcs9_emailAddress">>),
                NameOf(<<"NID_organizationalUnitName">>),
                NameOf(<<"NID_localityName", "NID_organizationName">>)}
SampleAltNames == {NoAltNames, AltNamesOf(<<>>), AltNamesOf(<<"EMAIL">>),
                   AltNamesOf(<<"DNS", "EMAIL">>), AltNamesOf(<<"URI", "UPN">>)}
NameTypes == NAME_TYPE_SIMPLE..NAME_TYPE_URL

\* every name with a sample list, and every list with a sample name, in both directions
NameInfoInputs ==
    LET pairs == (AllNames \X SampleAltNames) \cup (SampleNames \X AllAltNames)
    IN  {[x509 |-> CertFor(f, p[1], p[2]), nameType |-> m, forIssuer |-> f] :
            p \in pairs, m \in NameTypes, f \in {0, 1}}
        \cup {[x509 |-> NullCert, nameType |-> NAME_TYPE_SIMPLE, forIssuer |-> 0]}
        \cup {[x509 |-> CertFor(0, NameOf(<<"NID_commonName">>), NoAltNames), nameType |-> m,
               forIssuer |-> 0] : m \in {NAME_TYPE_SIMPLE - 1, NAME_TYPE_URL + 1}}

(***************************************************************************)
(* Inputs of the identity checks                                            *)
(***************************************************************************)
Ip4A == <<10, 0, 0, 1>>
Ip4B == <<10, 0, 0, 2>>
\* a 16-byte address whose low-order four bytes are those of Ip4A
Ip16A == <<0, 0, 0, 0, 0, 0, 0, 0, 0, 0, 255, 255, 10, 0, 0, 1>>
OctetString(bytes) == [type |-> "OCTET_STRING", data |-> bytes]
IpAltKinds == {"DNS", "DNS4A", "IP4A", "IP4B", "IP16A"}
IpAltEntry(kind) ==
    CASE kind = "IP4A" -> AltEntry("IPADD", OctetString(Ip4A))
      [] kind = "IP4B" -> AltEntry("IPADD", OctetString(Ip4B))
      [] kind = "IP16A" -> AltEntry("IPADD", OctetString(Ip16A))
      [] kind = "DNS4A" -> AltEntry("DNS", [type |-> "IA5STRING", data |-> Ip4A])
      [] OTHER -> AltEntry("DNS", AltStr(1))
\* the hostname "ab", and Subject entries that are and are not equal to it
HostAb == [null |-> FALSE, chars |-> <<97, 98>>]
NullHost == [null |-> TRUE, chars |-> <<>>]
SubjectKinds == {"CN_ab", "CN_AB", "CN_a", "CN_abc", "OU_ab"}
SubjectEntry(kind) ==
    CASE kind = "CN_ab" -> [oid |-> "NID_commonName",
                            str |-> [type |-> "UTF8STRING", data |-> <<97, 98>>]]
      [] kind = "CN_AB" -> [oid |-> "NID_commonName",
                            str |-> [type |-> "PRINTABLESTRING", data |-> <<65, 66>>]]
      [] kind = "CN_a" -> [oid |-> "NID_commonName",
                           str |-> [type |-> "UTF8STRING", data |-> <<97>>]]
      [] kind = "CN_abc" -> [oid |-> "NID_commonName",
                             str |-> [type |-> "UTF8STRING", data |-> <<97, 98, 99>>]]
      [] OTHER -> [oid |-> "NID_organizationalUnitName",
                   str |-> [type |-> "UTF8STRING", data |-> <<97, 98>>]]
IpCerts ==
    {[null |-> FALSE,
      subject |-> [null |-> FALSE, entries |-> [i \in DOMAIN ks |-> SubjectEntry(ks[i])]],
      issuer |-> OtherNameOf(<<"NID_commonName">>),
      san |-> alt, ian |-> NoAltNames] :
        ks \in SeqsUpTo(SubjectKinds, MaxNameLen),
        alt \in {NoAltNames}
                \cup {[present |-> TRUE, entries |-> [i \in DOMAIN as |-> IpAltEntry(as[i])]] :
                        as \in SeqsUpTo(IpAltKinds, MaxAltLen)}}
SampleCert == CertFor(0, NameOf(<<"NID_commonName">>), AltNamesOf(<<"EMAIL">>))
Bytes(b) == [null |-> FALSE, bytes |-> b]
NullBytes == [null |-> TRUE, bytes |-> <<>>]

IpAddressInputs ==
    {[x509 |-> c, addressBytes |-> Bytes(a), addressBytesLen |-> Len(a), hostname |-> HostAb,
      cchHostname |-> Len(HostAb.chars)] : c \in IpCerts, a \in {Ip4A, Ip16A}}
    \cup {[x509 |-> NullCert, addressBytes |-> Bytes(Ip4A), addressBytesLen |-> 4,
           hostname |-> HostAb, cchHostname |-> 2],
          [x509 |-> SampleCert, addressBytes |-> Bytes(Ip4A), addressBytesLen |-> 4,
           hostname |-> NullHost, cchHostname |-> 2],
          [x509 |-> SampleCert, addressBytes |-> Bytes(Ip4A), addressBytesLen |-> 4,
           hostname |-> HostAb, cchHostname |-> 0 - 1],
          [x509 |-> SampleCert, addressBytes |-> Bytes(Ip4A), addressBytesLen |-> 0 - 1,
           hostname |-> HostAb, cchHostname |-> 2],
          [x509 |-> SampleCert, addressBytes |-> NullBytes, addressBytesLen |-> 0,
           hostname |-> HostAb, cchHostname |-> 2]}

Hostnames == {HostAb, [null |-> FALSE, chars |-> <<46, 97>>],
              [null |-> FALSE, chars |-> <<97, 46>>], [null |-> FALSE, chars |-> <<>>]}
HostnameInputs ==
    {[x509 |-> c, hostname |-> h, cchHostname |-> Len(h.chars), libResult |-> r] :
        c \in {SampleCert, CertFor(0, NameOf(<<>>), NoAltNames)}, h \in Hostnames,
        r \in {0 - 1, 0, 1}}
    \cup {[x509 |-> NullCert, hostname |-> HostAb, cchHostname |-> 2, libResult |-> 1],
          [x509 |-> SampleCert, hostname |-> NullHost, cchHostname |-> 2, libResult |-> 1],
          [x509 |-> SampleCert, hostname |-> NullHost, cchHostname |-> 0, libResult |-> 1],
          [x509 |-> SampleCert, hostname |-> HostAb, cchHostname |-> 0 - 1, libResult |-> 1]}

\* the inputs of the calls made while the library is being initialized
EarlyNameInfoInputs ==
    {[x509 |-> c, nameType |-> m, forIssuer |-> 0] :
        c \in {NullCert, SampleCert}, m \in {NAME_TYPE_SIMPLE - 1, NAME_TYPE_SIMPLE,
                                             NAME_TYPE_URL + 1}}
EarlyHostnameInputs ==
    {[x509 |-> c, hostname |-> h, cchHostname |-> Len(h.chars), libResult |-> 1] :
        c \in {NullCert, SampleCert}, h \in {HostAb, [null |-> FALSE, chars |-> <<46, 97>>]}}
EarlyIpAddressInputs ==
    {[x509 |-> c, addressBytes |-> Bytes(Ip4A), addressBytesLen |-> n, hostname |-> HostAb,
      cchHostname |-> 2] : c \in {NullCert, SampleCert}, n \in {0 - 1, 4}}

(***************************************************************************)
(* The certificate queries as operations                                    *)
(***************************************************************************)
NoCall == [op |-> "none"]

\* a call of CryptoNative_GetX509NameInfo with one of the inputs
GetX509NameInfoCall(Inputs) ==
    /\ ~aborted /\ api.op = "none"
    /\ \E in \in Inputs :
       LET r == CryptoNative_GetX509NameInfo(in.x509, in.nameType, in.forIssuer)
       IN  /\ api' = [op |-> "GetX509NameInfo", x509 |-> in.x509, nameType |-> in.nameType,
                      forIssuer |-> in.forIssuer, bio |-> r.bio, step |-> r.step,
                      obtained |-> r.obtained, released |-> r.released,
                      readCert |-> r.step # "rejected", initState |-> InitState]
           /\ liveAltNames' = liveAltNames + r.obtained - r.released
    /\ UNCHANGED <<initVars, ctx, resp, exLast>>

\* a call of CryptoNative_CheckX509Hostname
CheckX509HostnameCall(Inputs) ==
    /\ ~aborted /\ api.op = "none"
    /\ \E in \in Inputs :
       LET r == CryptoNative_CheckX509Hostname(in.x509, in.hostname, in.cchHostname,
                                               in.libResult)
       IN  api' = [op |-> "CheckX509Hostname", x509 |-> in.x509, hostname |-> in.hostname,
                   cchHostname |-> in.cchHostname, libResult |-> in.libResult,
                   ret |-> r.ret, invoked |-> r.invoked, flags |-> r.flags,
                   obtained |-> 0, released |-> 0,
                   readCert |-> r.invoked, initState |-> InitState]
    /\ UNCHANGED <<initVars, liveAltNames, ctx, resp, exLast>>

\* a call of CryptoNative_CheckX509IpAddress
CheckX509IpAddressCall(Inputs) ==
    /\ ~aborted /\ api.op = "none"
    /\ \E in \in Inputs :
       LET r == CryptoNative_CheckX509IpAddress(in.x509, in.addressBytes, in.addressBytesLen,
                                                in.hostname, in.cchHostname)
       IN  /\ api' = [op |-> "CheckX509IpAddress", x509 |-> in.x509,
                      addressBytes |-> in.addressBytes, addressBytesLen |-> in.addressBytesLen,
                      hostname |-> in.hostname, cchHostname |-> in.cchHostname,
                      ret |-> r.ret, obtained |-> r.obtained, released |-> r.released,
                      readCert |-> r.readCert, fallback |-> r.fallback,
                      initState |-> InitState]
           /\ liveAltNames' = liveAltNames + r.obtained - r.released
    /\ UNCHANGED <<initVars, ctx, resp, exLast>>

\* the caller takes the result of the call (and frees the BIO it was given)
TakeResult ==
    /\ api.op # "none"
    /\ api' = NoCall
    /\ UNCHANGED <<initVars, liveAltNames, ctx, resp, exLast>>

(***************************************************************************)
(* The ex_data callbacks, driven by the library                             *)
(***************************************************************************)
Contexts == 1..MaxCtx
Responses == 1..MaxResp
\* a place where the library has no object (none created yet, or the object was freed)
NoObject == [state |-> "unused", class |-> "X509", data |-> 0]
\* the marker value attached to sessions
SessionTag == 1

\* the duplicate keeps the pointer of the original
ExDataDupOcspResponse_Shared(fromdNull, ptr, idx) == ptr
\* if (pptr != NULL) if (idx == g_x509_ocsp_index) *pptr = NULL;  -- the value left in *pptr
ExDataDupOcspResponse(fromdNull, ptr, idx) ==
    IF ~fromdNull /\ idx = g_x509_ocsp_index THEN 0 ELSE ptr

\* if (ptr != NULL) if (idx == g_x509_ocsp_index) OCSP_RESPONSE_free(ptr);  -- TRUE when freed
ExDataFreeOcspResponse(ptr, idx) == ptr # 0 /\ idx = g_x509_ocsp_index

\* do nothing: the pointer is copied verbatim
ExDataDupNoOp(fromdNull, ptr, idx) == ptr
\* do nothing
ExDataFreeNoOp(ptr, idx) == FALSE

\* the class index and the slot of our registration for a class of objects
ClassIndex(class) ==
    IF class = "X509"
    THEN (IF generation = "Legacy" THEN LEGACY_EX_INDEX_X509 ELSE MODERN_EX_INDEX_X509)
    ELSE (IF generation = "Legacy" THEN LEGACY_EX_INDEX_SSL_SESSION
          ELSE MODERN_EX_INDEX_SSL_SESSION)
Registration(class) ==
    LET i == CHOOSE i \in DOMAIN lib.exRegs : lib.exRegs[i].class = ClassIndex(class)
    IN  lib.exRegs[i]

\* the library calls the dup_func registered for the slot: the value stored in the copy
CallDup(reg, ptr) ==
    IF reg.dup = "ExDataDupOcspResponse" THEN ExDataDupOcspResponse(FALSE, ptr, reg.idx)
    ELSE ExDataDupNoOp(FALSE, ptr, reg.idx)
\* the library calls the free_func registered for the slot: TRUE when the object is freed
CallFree(reg, ptr) ==
    IF reg.free = "ExDataFreeOcspResponse" THEN ExDataFreeOcspResponse(ptr, reg.idx)
    ELSE ExDataFreeNoOp(ptr, reg.idx)

\* the library creates an object of a class; its ex_data slot is empty
ExNew(c, class) ==
    /\ ctx[c].state = "unused"
    /\ ctx' = [ctx EXCEPT ![c] = [state |-> "live", class |-> class, data |-> 0]]
    /\ exLast' = [op |-> "new", class |-> class, from |-> 0, to |-> 0, freed |-> FALSE,
                  dupOfHolder |-> exLast.dupOfHolder]
    /\ UNCHANGED <<initVars, api, liveAltNames, resp>>

\* a fresh OCSP response is attached to a certificate: X509_set_ex_data(x, g_x509_ocsp_index, r)
ExAttachOcsp(c, o) ==
    /\ ctx[c].state = "live" /\ ctx[c].class = "X509"
    /\ resp[o].state = "unallocated"
    /\ resp' = [resp EXCEPT ![o].state = "live"]
    /\ ctx' = [ctx EXCEPT ![c].data = o]
    /\ exLast' = [op |-> "attach", class |-> "X509", from |-> 0, to |-> o, freed |-> FALSE,
                  dupOfHolder |-> exLast.dupOfHolder]
    /\ UNCHANGED <<initVars, api, liveAltNames>>

\* a marker is attached to a session: SSL_SESSION_set_ex_data(s, g_ssl_sess_cert_index, tag)
ExAttachTag(c) ==
    /\ ctx[c].state = "live" /\ ctx[c].class = "SSL_SESSION"
    /\ ctx' = [ctx EXCEPT ![c].data = SessionTag]
    /\ exLast' = [op |-> "attach", class |-> "SSL_SESSION", from |-> 0, to |-> SessionTag,
                  freed |-> FALSE, dupOfHolder |-> exLast.dupOfHolder]
    /\ UNCHANGED <<initVars, api, liveAltNames, resp>>

\* CRYPTO_dup_ex_data: ptr = from[idx]; dup_func(to, from, &ptr, idx, ...); to[idx] = ptr
ExDup(c, d) ==
    /\ ctx[c].state = "live" /\ ctx[d].state = "unused"
    /\ LET ptr == CallDup(Registration(ctx[c].class), ctx[c].data)
       IN  /\ ctx' = [ctx EXCEPT ![d] = [state |-> "live", class |-> ctx[c].class,
                                         data |-> ptr]]
           /\ exLast' = [op |-> "dup", class |-> ctx[c].class, from |-> ctx[c].data,
                         to |-> ptr, freed |-> FALSE,
                         dupOfHolder |-> exLast.dupOfHolder
                                         \/ (ctx[c].class = "X509" /\ ctx[c].data # 0)]
    /\ UNCHANGED <<initVars, api, liveAltNames, resp>>

\* CRYPTO_free_ex_data: free_func(parent, ptr, ad, idx, ...) for the slot
ExFree(c) ==
    /\ ctx[c].state = "live"
    /\ LET freed == CallFree(Registration(ctx[c].class), ctx[c].data)
       IN  /\ resp' = IF freed
                      THEN [resp EXCEPT ![ctx[c].data] =
                                [state |-> "released", frees |-> @.frees + 1]]
                      ELSE resp
           /\ exLast' = [op |-> "free", class |-> ctx[c].class, from |-> ctx[c].data,
                         to |-> 0, freed |-> freed, dupOfHolder |-> exLast.dupOfHolder]
    /\ ctx' = [ctx EXCEPT ![c] = NoObject]
    /\ UNCHANGED <<initVars, api, liveAltNames>>

(***************************************************************************)
(* The variable-length accessors                                            *)
(***************************************************************************)
\* what a call leaves behind: the code returned, the bytes copied into the caller's
\* buffer, and whether an assert of the function failed
AccessorResult(ret, written, assertFails) ==
    [ret |-> ret, written |-> written, assertFails |-> assertFails]

\* the function answering with the number of bytes copied
CryptoNative_GetAsn1StringBytes_ReturnsLength(asn1, pBufNull, cBuf) ==
    IF asn1 = NULLSTR \/ cBuf < 0 THEN AccessorResult(0, <<>>, FALSE)
    ELSE LET length == Len(asn1.data)
         IN  IF pBufNull \/ cBuf < length THEN AccessorResult(0 - length, <<>>, FALSE)
             ELSE AccessorResult(length, asn1.data, FALSE)
\* CryptoNative_GetAsn1StringBytes(asn1, pBuf, cBuf)
CryptoNative_GetAsn1StringBytes(asn1, pBufNull, cBuf) ==
    IF asn1 = NULLSTR \/ cBuf < 0 THEN AccessorResult(0, <<>>, FALSE)
    ELSE LET length == Len(asn1.data)
         IN  IF pBufNull \/ cBuf < length THEN AccessorResult(0 - length, <<>>, FALSE)
             ELSE AccessorResult(1, asn1.data, FALSE)

\* CryptoNative_GetX509NameRawBytes(x509Name, pBuf, cBuf); x509Name is [null, derOk, data],
\* derOk telling whether X509_NAME_get0_der succeeds and data being the encoding
CryptoNative_GetX509NameRawBytes(x509Name, pBufNull, cBuf) ==
    IF x509Name.null \/ cBuf < 0 \/ ~x509Name.derOk THEN AccessorResult(0, <<>>, FALSE)
    ELSE LET length == Len(x509Name.data)
         IN  IF pBufNull \/ cBuf < length THEN AccessorResult(0 - length, <<>>, FALSE)
             ELSE AccessorResult(1, x509Name.data, FALSE)

\* CryptoNative_GetX509PublicKeyParameterBytes(x509, pBuf, cBuf); x509 is [null, key, data],
\* key telling how far the certificate goes ("nopubkey", "noalg", "noparam", "param") and
\* data being the encoding of the parameter, empty when i2d_ASN1_TYPE fails
CryptoNative_GetX509PublicKeyParameterBytes(x509, pBufNull, cBuf) ==
    IF x509.null \/ x509.key \in {"nopubkey", "noalg"} THEN AccessorResult(0, <<>>, FALSE)
    ELSE IF x509.key = "noparam" THEN AccessorResult(2, <<>>, ~pBufNull)
    ELSE LET len == Len(x509.data)
         IN  IF cBuf < len THEN AccessorResult(0 - len, <<>>, FALSE)
             \* with a null pBuf i2d_ASN1_TYPE allocates its own buffer: nothing is copied
             \* into the caller's
             ELSE IF len > 0
                  THEN AccessorResult(1, IF pBufNull THEN <<>> ELSE x509.data, FALSE)
             ELSE AccessorResult(0, <<>>, FALSE)

\* the bytes 7, 8, 9, ... of a given length
SampleBytes(n) == [i \in 1..n |-> 6 + i]
Asn1Objects == {NULLSTR} \cup {OctetString(SampleBytes(n)) : n \in 0..MaxBytes}
NameObjects ==
    {[null |-> TRUE, derOk |-> FALSE, data |-> <<>>],
     [null |-> FALSE, derOk |-> FALSE, data |-> <<>>]}
    \cup {[null |-> FALSE, derOk |-> TRUE, data |-> SampleBytes(n)] : n \in 1..MaxBytes}
KeyObjects ==
    {[null |-> TRUE, key |-> "nopubkey", data |-> <<>>]}
    \cup {[null |-> FALSE, key |-> k, data |-> <<>>] : k \in {"nopubkey", "noalg", "noparam"}}
    \cup {[null |-> FALSE, key |-> "param", data |-> SampleBytes(n)] : n \in 0..MaxBytes}
AccessorNames == {"GetAsn1StringBytes", "GetX509NameRawBytes", "GetX509PublicKeyParameterBytes"}
AccessorObjects(op) ==
    CASE op = "GetAsn1StringBytes" -> Asn1Objects
      [] op = "GetX509NameRawBytes" -> NameObjects
      [] OTHER -> KeyObjects
Capacities == (0 - 1)..(MaxBytes + 1)

\* the accessor of the given name applied to an object
Accessor(op, obj, pBufNull, cBuf) ==
    CASE op = "GetAsn1StringBytes" -> CryptoNative_GetAsn1StringBytes(obj, pBufNull, cBuf)
      [] op = "GetX509NameRawBytes" -> CryptoNative_GetX509NameRawBytes(obj, pBufNull, cBuf)
      [] OTHER -> CryptoNative_GetX509PublicKeyParameterBytes(obj, pBufNull, cBuf)

\* a call of an accessor, record kept until the caller takes it
AccessorRecord(op, obj, pBufNull, cBuf, phase, probed) ==
    LET r == Accessor(op, obj, pBufNull, cBuf)
    IN  /\ api' = [op |-> op, obj |-> obj, pBufNull |-> pBufNull, cBuf |-> cBuf,
                   ret |-> r.ret, written |-> r.written, phase |-> phase, probed |-> probed]
        /\ aborted' = (r.assertFails /\ ~ndebug)
        /\ UNCHANGED <<generation, ndebug, once_control, g_initStatus, g_x509_ocsp_index,
                       g_ssl_sess_cert_index, g_locks, g_initLock, locksMem, lib, pc, calls,
                       retval, core, hist, liveAltNames, ctx, resp, exLast>>

\* a caller calls an accessor with some buffer
AccessorCall ==
    /\ ~aborted /\ api.op = "none"
    /\ \E op \in AccessorNames, pBufNull \in BOOLEAN, cBuf \in Capacities :
       \E obj \in AccessorObjects(op) : AccessorRecord(op, obj, pBufNull, cBuf, "call", 0)

\* a caller that was answered with a negative code calls again with a buffer of that size
AccessorRetry ==
    /\ ~aborted /\ api.op \in AccessorNames /\ api.phase = "call" /\ api.ret < 0
    /\ AccessorRecord(api.op, api.obj, FALSE, 0 - api.ret, "retry", api.ret)

(***************************************************************************)
(* Initial states                                                           *)
(***************************************************************************)
RestInit ==
    /\ api = NoCall
    /\ liveAltNames = 0
    /\ ctx = [c \in Contexts |-> NoObject]
    /\ resp = [o \in Responses |-> [state |-> "unallocated", frees |-> 0]]
    /\ exLast = [op |-> "none", class |-> "X509", from |-> 0, to |-> 0, freed |-> FALSE,
                 dupOfHolder |-> FALSE]

\* the process after thread 1 has initialized the library with success
ReadyInit ==
    /\ generation \in {"Legacy", "Modern"}
    /\ ndebug \in BOOLEAN
    /\ aborted = FALSE
    /\ once_control = "DONE"
    /\ g_initStatus = 0
    /\ g_x509_ocsp_index = ExBase
    /\ g_ssl_sess_cert_index = ExBase
    /\ g_locks = IF generation = "Legacy" THEN "array" ELSE NULL
    /\ g_initLock = 0
    /\ locksMem = IF generation = "Legacy"
                  THEN [n |-> 1, st |-> [i \in 0..0 |-> "init"],
                        destroys |-> [i \in 0..0 |-> 0], frees |-> 0]
                  ELSE [n |-> 0, st |-> <<>>, destroys |-> <<>>, frees |-> 0]
    /\ lib = [lockingCallback |-> IF generation = "Legacy" THEN "LockingCallback" ELSE NULL,
              exRegs |-> <<[class |-> ClassIndex("X509"), idx |-> ExBase,
                            dup |-> "ExDataDupOcspResponse",
                            free |-> "ExDataFreeOcspResponse"],
                           [class |-> ClassIndex("SSL_SESSION"), idx |-> ExBase,
                            dup |-> "ExDataDupNoOp", free |-> "ExDataFreeNoOp"]>>,
              initSsl |-> IF generation = "Legacy" THEN "none" ELSE "ok",
              atexit |-> IF generation = "Legacy" THEN 0 ELSE 1]
    /\ pc = [t \in Threads |-> "idle"]
    /\ calls = 1
    /\ retval = [t \in Threads |-> IF t = 1 THEN {0} ELSE {}]
    /\ core = [t \in Threads |->
                 IF t = 1 /\ generation = "Legacy"
                 THEN [ret |-> 0, numLocks |-> 1, locksInitialized |-> 1]
                 ELSE CoreLocals]
    /\ hist = IF generation = "Legacy"
              THEN [coreRuns |-> 1, mallocs |-> 1, callbackInstalls |-> 1, statusWrites |-> 1,
                    coreRet |-> {0}, contenders |-> 1]
              ELSE [coreRuns |-> 1, mallocs |-> 0, callbackInstalls |-> 0, statusWrites |-> 1,
                    coreRet |-> {0}, contenders |-> 1]
    /\ RestInit

vars == <<initVars, api, liveAltNames, ctx, resp, exLast>>

\* the initialization entry point called by NumThreads threads
Init == InitInit /\ RestInit
Next == \E t \in Threads : InitStep(t)
Spec == Init /\ [][Next]_vars

\* the same, with the scheduler letting every thread that can leave pthread_once or return
\* do so; nothing makes the library calls of the initialization routine come back
LeaveOnce(t) == InitStep(t) /\ pc[t] = "once" /\ pc'[t] = "read"
Return(t) == InitStep(t) /\ pc[t] = "read"
FairSpec == Spec /\ \A t \in Threads : WF_vars(LeaveOnce(t)) /\ WF_vars(Return(t))

\* one thread initializes the library while the certificate queries are being called
NextEarly ==
    \/ InitStep(1)
    \/ GetX509NameInfoCall(EarlyNameInfoInputs)
    \/ CheckX509HostnameCall(EarlyHostnameInputs)
    \/ CheckX509IpAddressCall(EarlyIpAddressInputs)
    \/ TakeResult
SpecEarly == Init /\ [][NextEarly]_vars

\* the certificate queries, called after the initialization has succeeded
NextQueries ==
    \/ GetX509NameInfoCall(NameInfoInputs)
    \/ CheckX509HostnameCall(HostnameInputs)
    \/ CheckX509IpAddressCall(IpAddressInputs)
    \/ TakeResult
SpecQueries == ReadyInit /\ [][NextQueries]_vars

\* the library creating, duplicating and freeing objects that carry our ex_data slots
NextExData ==
    \/ \E c \in Contexts, class \in {"X509", "SSL_SESSION"} : ExNew(c, class)
    \/ \E c \in Contexts, o \in Responses : ExAttachOcsp(c, o)
    \/ \E c \in Contexts : ExAttachTag(c)
    \/ \E c \in Contexts, d \in Contexts : ExDup(c, d)
    \/ \E c \in Contexts : ExFree(c)
SpecExData == ReadyInit /\ [][NextExData]_vars

\* the variable-length accessors called with buffers of every capacity, and retried
NextAccessors ==
    \/ AccessorCall
    \/ AccessorRetry
    \/ TakeResult
SpecAccessors == ReadyInit /\ [][NextAccessors]_vars

\* the initialization run by the threads while the library, once it has the callback,
\* asks for its locks
NextLocking ==
    \/ \E t \in Threads : InitStep(t)
    \/ \E mode \in LockModes, n \in DOMAIN locksMem.st : LockingCallback(mode, n)
SpecLocking == Init /\ [][NextLocking]_vars

(***************************************************************************)
(* Properties                                                               *)
(***************************************************************************)
SetupPcs == {"core", "l_begin", "l_mutex", "l_callback", "l_rand", "l_register", "l_done",
             "m_init", "m_atexit", "m_register", "core_end", "once_end"}

\* C1: whatever the number of threads that call CryptoNative_EnsureOpenSslInitialized and
\* however they interleave, the setup sequence is entered exactly once: at most one thread
\* is ever inside it, the mutex array is allocated at most once, the locking callback is
\* installed at most once, each extension slot is registered at most once, and once the
\* once control has left its initial value the sequence has run once and never runs again.
C1_SetupRunsOnce ==
    /\ hist.coreRuns <= 1
    /\ (once_control # "INIT" <=> hist.coreRuns = 1)
    /\ Cardinality({t \in Threads : pc[t] \in SetupPcs}) <= 1
    /\ (once_control = "INPROGRESS" <=> \E t \in Threads : pc[t] \in SetupPcs)
    /\ hist.mallocs <= 1 /\ hist.callbackInstalls <= 1 /\ lib.atexit <= 1
    /\ Len(lib.exRegs) \in {0, 2}
    /\ hist.statusWrites <= 1
    /\ (once_control = "DONE" /\ g_initStatus = 0
          => /\ Len(lib.exRegs) = 2
             /\ generation = "Legacy" => hist.mallocs = 1 /\ hist.callbackInstalls = 1)
\* every thread raced for the first call, further calls came later, and all have returned
C1_Witness ==
    /\ hist.contenders = NumThreads /\ calls = MaxCalls
    /\ \A t \in Threads : pc[t] = "idle" /\ retval[t] # {}
    /\ hist.coreRuns = 1 /\ g_initStatus = 0

\* C2: every call returns the status the one execution of the setup sequence produced: a
\* value is returned only after EnsureOpenSslInitializedOnce has assigned g_initStatus
\* (never the value the variable was initialized with, read before the assignment), it is
\* the value EnsureOpenSslInitializedCore returned, so all calls return the same value;
\* and once the once control is done, neither it nor g_initStatus changes again.
C2_SameStatus ==
    /\ [](\A t \in Threads :
            retval[t] # {} => /\ once_control = "DONE" /\ hist.statusWrites = 1
                              /\ retval[t] = hist.coreRet
                              /\ retval[t] = {g_initStatus})
    /\ [][once_control = "DONE" => once_control' = "DONE" /\ g_initStatus' = g_initStatus]_vars
\* the threads raced, the sequence failed in its mutex loop, and every thread was told so
C2_Witness ==
    /\ hist.contenders >= 2 /\ calls = MaxCalls
    /\ \A t \in Threads : pc[t] = "idle" /\ retval[t] = {3}

\* C3: a thread that is in pthread_once while another thread executes the setup sequence
\* leaves it, and returns, only when the sequence has ended (so while the winner has not
\* finished, no caller returns: there is no timeout); and once the sequence has ended,
\* every thread that is inside the entry point eventually returns.
C3_WaitersBlockThenReturn ==
    /\ [](\A t \in Threads : pc[t] = "read" \/ retval[t] # {} => once_control = "DONE")
    /\ \A t \in Threads :
         (pc[t] \in {"once", "read"} /\ once_control = "DONE")
            ~> (pc[t] = "idle" /\ retval[t] # {})
\* all threads were in pthread_once when the winner took the routine, and all have returned
C3_Witness ==
    /\ hist.contenders = NumThreads
    /\ \A t \in Threads : pc[t] = "idle" /\ retval[t] # {}

\* what the argument checks of the three queries accept
ValidQueryArgs(call) ==
    CASE call.op = "GetX509NameInfo" ->
            ~call.x509.null /\ call.nameType >= 0 /\ call.nameType <= 5
      [] call.op = "CheckX509Hostname" ->
            /\ ~call.x509.null /\ call.cchHostname >= 0
            /\ ~(call.cchHostname > 0 /\ call.hostname.null)
            /\ ~(call.cchHostname > 0 /\ call.hostname.chars[1] = 46)
      [] call.op = "CheckX509IpAddress" ->
            /\ ~call.x509.null /\ call.cchHostname >= 0
            /\ ~(call.cchHostname > 0 /\ call.hostname.null)
            /\ call.addressBytesLen >= 0 /\ ~call.addressBytes.null

\* C4 as stated: no name-resolution or identity-matching call reads the certificate while
\* InitState is anything other than Ready.
C4_QueriesGatedOnReady ==
    api.op # "none" /\ api.readCert => api.initState = "Ready"
\* C4 as amended: the queries do not look at InitState; whether a call goes on to read the
\* certificate is decided by its arguments alone, in every InitState.
C4_ArgumentsAloneDecide ==
    api.op # "none" => (api.readCert <=> ValidQueryArgs(api))
\* a name query read the certificate while the library was being initialized
C4_Witness ==
    api.op = "GetX509NameInfo" /\ api.readCert /\ api.initState = "Initializing"

\* a step of the initialization sequence that has run has failed
SomeStepFailed ==
    \/ \E i \in DOMAIN lib.exRegs : lib.exRegs[i].idx = EX_UNREGISTERED
    \/ lib.initSsl = "failed"
    \/ hist.coreRet \cap {1, 2, 3, 4} # {}

\* C5: the sequence ends in Ready (status 0) only if every step succeeded and in Failed
\* (status not 0) if a step failed, the registration of either extension slot and the
\* library's own init entry point included.
C5_ReadyIffAllStepsSucceeded ==
    once_control = "DONE" => (g_initStatus = 0 <=> ~SomeStepFailed)

\* C6: whenever InitState is Ready, both slot handles are registered values (not -1) and
\* each slot was registered exactly once with the class index of the loaded generation.
C6_ReadyHandlesRegistered ==
    InitState = "Ready"
       => /\ g_x509_ocsp_index # EX_UNREGISTERED
          /\ g_ssl_sess_cert_index # EX_UNREGISTERED
          /\ Len(lib.exRegs) = 2
          /\ lib.exRegs[1].class = (IF generation = "Legacy" THEN 10 ELSE 3)
          /\ lib.exRegs[2].class = (IF generation = "Legacy" THEN 3 ELSE 2)
          /\ lib.exRegs[1].idx = g_x509_ocsp_index
          /\ lib.exRegs[2].idx = g_ssl_sess_cert_index

\* C7: a response attached through the OCSP slot is held by at most one live object and is
\* freed at most once, and no live object holds a freed response; a duplicate of a
\* certificate has a null OCSP slot; the free callback frees exactly when the slot pointer
\* is not null (the index being the slot's); for the session slot the duplicate carries
\* the tag of the original and nothing is ever freed.
C7_OcspSlotSingleOwner ==
    /\ \A o \in Responses :
         /\ Cardinality({c \in Contexts : ctx[c].state = "live" /\ ctx[c].class = "X509"
                                           /\ ctx[c].data = o}) <= 1
         /\ resp[o].frees <= 1
    /\ \A c \in Contexts :
         ctx[c].state = "live" /\ ctx[c].class = "X509" /\ ctx[c].data # 0
            => resp[ctx[c].data].state = "live"
    /\ exLast.op = "dup" => exLast.to = (IF exLast.class = "X509" THEN 0 ELSE exLast.from)
    /\ exLast.op = "free" => (exLast.freed <=> exLast.class = "X509" /\ exLast.from # 0)
\* a certificate that holds a response was duplicated, every object has been freed since,
\* and every response has been freed
C7_Witness ==
    /\ exLast.op = "free" /\ exLast.dupOfHolder
    /\ \A c \in Contexts : ctx[c].state = "unused"
    /\ \A o \in Responses : resp[o].state = "released" /\ resp[o].frees = 1

\* the list the call is about exists: the extension is present and the call gets to decode it
AltNamesDecoded(call) ==
    CASE call.op = "GetX509NameInfo" ->
            /\ ValidQueryArgs(call) /\ call.step # "name"
            /\ (IF call.forIssuer # 0 THEN call.x509.ian.present ELSE call.x509.san.present)
      [] call.op = "CheckX509IpAddress" -> ValidQueryArgs(call) /\ call.x509.san.present
      [] OTHER -> FALSE

\* C8: in every call of CryptoNative_GetX509NameInfo and CryptoNative_CheckX509IpAddress a
\* decoded alternative-name list is freed exactly once before the call returns, whether an
\* entry matched or not, nothing is freed when no list was decoded, and after any sequence
\* of calls no decoded list is left allocated.
C8_AltNamesReleasedOnce ==
    /\ liveAltNames = 0
    /\ api.op \in {"GetX509NameInfo", "CheckX509IpAddress"}
          => /\ api.obtained = (IF AltNamesDecoded(api) THEN 1 ELSE 0)
             /\ api.released = api.obtained
\* the name query returned from inside the loop, on a match in the second entry
C8_Witness ==
    /\ api.op = "GetX509NameInfo" /\ api.step = "alt" /\ api.released = 1
    /\ api.nameType = NAME_TYPE_URL
    /\ Len(api.x509.san.entries) = 2 /\ api.x509.san.entries[2].type = "GEN_URI"
    /\ api.x509.san.entries[1].type = "GEN_DNS"

\* the UTF-8 text of the sample strings, written out by hand
TextOf(str) ==
    CASE str = [type |-> "PRINTABLESTRING", data |-> <<97>>] -> <<97>>
      [] str = [type |-> "UTF8STRING", data |-> <<195, 169>>] -> <<195, 169>>
      [] str = [type |-> "BMPSTRING", data |-> <<1, 2>>] -> <<196, 130>>
      [] str = [type |-> "T61STRING", data |-> <<241>>] -> <<195, 177>>
      [] str = [type |-> "IA5STRING", data |-> <<109>>] -> <<109>>
      [] str = [type |-> "IA5STRING", data |-> <<233>>] -> <<195, 169>>
      [] OTHER -> str.data
\* the entries of the name a call of CryptoNative_GetX509NameInfo is about
QueriedEntries(call) ==
    IF call.forIssuer # 0 THEN call.x509.issuer.entries ELSE call.x509.subject.entries
\* the positions of the entries with a given attribute
Positions(entries, nid) == {i \in DOMAIN entries : entries[i].oid = nid}
Last(S) == CHOOSE i \in S : \A j \in S : j <= i

\* C9: when the queried name (Subject, or Issuer with forIssuer) has a Common-Name entry,
\* the Simple query answers with the text of the last-encoded Common-Name entry, whatever
\* else the name and the alternative names hold, and does not decode the alternative names.
C9_SimpleReturnsLastCommonName ==
    (/\ api.op = "GetX509NameInfo" /\ api.nameType = NAME_TYPE_SIMPLE /\ ~api.x509.null
     /\ Positions(QueriedEntries(api), "NID_commonName") # {})
       => /\ api.step = "name" /\ ~api.bio.null
          /\ api.bio.bytes =
                TextOf(QueriedEntries(api)[Last(Positions(QueriedEntries(api),
                                                          "NID_commonName"))].str)
          /\ api.obtained = 0
\* an Issuer with two Common-Names around another attribute, and an email alternative name
C9_Witness ==
    /\ api.op = "GetX509NameInfo" /\ api.nameType = NAME_TYPE_SIMPLE /\ api.forIssuer = 1
    /\ Len(api.x509.issuer.entries) = 3
    /\ Positions(api.x509.issuer.entries, "NID_commonName") = {1, 3}
    /\ api.x509.ian.present /\ Len(api.x509.ian.entries) = 1
    /\ api.x509.ian.entries[1].type = "GEN_EMAIL"
    /\ api.bio.bytes = <<196, 130>>

\* C10: when the queried name has no Common-Name entry but has an OrganizationalUnit
\* entry, the Simple query answers with the text of an OrganizationalUnit entry, taken
\* from the name, whatever else the name holds.
C10_SimpleFallsBackToOrganizationalUnit ==
    (/\ api.op = "GetX509NameInfo" /\ api.nameType = NAME_TYPE_SIMPLE /\ ~api.x509.null
     /\ Positions(QueriedEntries(api), "NID_commonName") = {}
     /\ Positions(QueriedEntries(api), "NID_organizationalUnitName") # {})
       => /\ api.step = "name" /\ ~api.bio.null
          /\ \E i \in Positions(QueriedEntries(api), "NID_organizationalUnitName") :
                api.bio.bytes = TextOf(QueriedEntries(api)[i].str)

\* the alternative-name list a call of CryptoNative_GetX509NameInfo is about
QueriedAltNames(call) == IF call.forIssuer # 0 THEN call.x509.ian ELSE call.x509.san
\* the tag each mode looks for, written out mode by mode
ModeTag(nameType) ==
    CASE nameType = 0 -> "GEN_EMAIL"
      [] nameType = 1 -> "GEN_EMAIL"
      [] nameType = 2 -> "GEN_OTHERNAME"
      [] nameType = 3 -> "GEN_DNS"
      [] nameType = 4 -> "GEN_DNS"
      [] nameType = 5 -> "GEN_URI"
      [] OTHER -> "none"
\* the positions of the list whose entry is of the mode's tag (and, for the UPN mode,
\* carries exactly the UPN object identifier)
AltMatches(call) ==
    {i \in DOMAIN QueriedAltNames(call).entries :
        /\ QueriedAltNames(call).entries[i].type = ModeTag(call.nameType)
        /\ call.nameType = 2
              => QueriedAltNames(call).entries[i].oid = <<1, 3, 6, 1, 4, 1, 311, 20, 2, 3>>}
First(S) == CHOOSE i \in S : \A j \in S : i <= j

\* C11: whenever CryptoNative_GetX509NameInfo gets to scan a decoded alternative-name
\* list, in every mode, it answers with the text of the first entry in list order that is
\* of the mode's tag (for UPN: an other-name with the UPN object identifier), entries of
\* other types or other object identifiers before it being skipped; and when the list has
\* no such entry the answer does not come from the list.
C11_AltScanFirstMatchInOrder ==
    (/\ api.op = "GetX509NameInfo" /\ ValidQueryArgs(api) /\ api.step # "name"
     /\ QueriedAltNames(api).present)
       => IF AltMatches(api) # {}
          THEN /\ api.step = "alt" /\ ~api.bio.null
               /\ api.bio.bytes = TextOf(QueriedAltNames(api).entries[First(AltMatches(api))].str)
          ELSE api.step # "alt"
\* Simple on an empty Subject: the DNS entry is skipped and the email entry after it answers
C11_Witness ==
    /\ api.op = "GetX509NameInfo" /\ api.nameType = NAME_TYPE_SIMPLE /\ api.forIssuer = 0
    /\ api.x509.subject.entries = <<>>
    /\ Len(api.x509.san.entries) = 2
    /\ api.x509.san.entries[1].type = "GEN_DNS" /\ api.x509.san.entries[2].type = "GEN_EMAIL"
    /\ api.step = "alt" /\ api.bio.bytes = <<195, 169>>

\* C12: in the UPN mode an other-name entry answers only when its object identifier is
\* exactly 1.3.6.1.4.1.311.20.2.3: the answer is the text of the first such entry, and
\* with none (only entries whose identifier is a prefix or an extension of it, or of other
\* types, or no list) the result is absent.
C12_UpnOidExact ==
    (api.op = "GetX509NameInfo" /\ ValidQueryArgs(api) /\ api.nameType = NAME_TYPE_UPN)
       => LET entries == QueriedAltNames(api).entries
              exact == {i \in DOMAIN entries :
                          /\ entries[i].type = "GEN_OTHERNAME"
                          /\ entries[i].oid = <<1, 3, 6, 1, 4, 1, 311, 20, 2, 3>>}
          IN  IF exact = {}
              THEN api.bio.null /\ api.step = "none"
              ELSE /\ api.step = "alt" /\ ~api.bio.null
                   /\ api.bio.bytes = TextOf(entries[First(exact)].str)
\* a list holding only the prefix 1.3.6.1.4.1.311.20.2 and the extension ...20.2.30
C12_Witness ==
    /\ api.op = "GetX509NameInfo" /\ api.nameType = NAME_TYPE_UPN /\ api.forIssuer = 0
    /\ Len(api.x509.san.entries) = 2
    /\ api.x509.san.entries[1].oid = <<1, 3, 6, 1, 4, 1, 311, 20, 2>>
    /\ api.x509.san.entries[2].oid = <<1, 3, 6, 1, 4, 1, 311, 20, 2, 30>>
    /\ api.bio.null

\* the rendering of the sample strings without conversion (flags 0), written out by hand:
\* a character above 0xff as \UXXXX, any other character as one byte
RawTextOf(str) ==
    CASE str = [type |-> "PRINTABLESTRING", data |-> <<97>>] -> <<97>>
      [] str = [type |-> "UTF8STRING", data |-> <<195, 169>>] -> <<233>>
      [] str = [type |-> "BMPSTRING", data |-> <<1, 2>>] -> <<92, 85, 48, 49, 48, 50>>
      [] str = [type |-> "T61STRING", data |-> <<241>>] -> <<241>>
      [] OTHER -> str.data

\* C13: the name is consulted after the alternative names by the Email and Dns modes only,
\* and only when the alternative-name scan found nothing: the answer is then the last-encoded
\* entry (the first one a reverse scan meets) whose attribute is emailAddress (Email) or
\* commonName (Dns), rendered without conversion. The UPN, DnsFromAlternativeName and Url
\* modes never answer from the name, and a call in which no step matches returns no value.
C13_LegacyFallbackEmailAndDnsOnly ==
    (api.op = "GetX509NameInfo" /\ ValidQueryArgs(api))
       => /\ api.step = "legacy" => api.nameType \in {NAME_TYPE_EMAIL, NAME_TYPE_DNS}
          /\ api.nameType \in {NAME_TYPE_UPN, NAME_TYPE_DNSALT, NAME_TYPE_URL}
                => api.step \in {"alt", "none"}
          /\ api.step = "none" <=> api.bio.null
          /\ api.nameType \in {NAME_TYPE_EMAIL, NAME_TYPE_DNS}
                => LET nid == IF api.nameType = NAME_TYPE_EMAIL THEN "NID_pkcs9_emailAddress"
                              ELSE "NID_commonName"
                       P == Positions(QueriedEntries(api), nid)
                   IN  IF AltMatches(api) # {} THEN api.step = "alt"
                       ELSE IF P # {}
                       THEN /\ api.step = "legacy"
                            /\ api.bio.bytes = RawTextOf(QueriedEntries(api)[Last(P)].str)
                       ELSE api.step = "none"
\* Dns on a Subject with two Common-Names and a list without DNS entry: the second answers
C13_Witness ==
    /\ api.op = "GetX509NameInfo" /\ api.nameType = NAME_TYPE_DNS /\ api.forIssuer = 0
    /\ Positions(api.x509.subject.entries, "NID_commonName") = {1, 2}
    /\ api.x509.san.present /\ Len(api.x509.san.entries) = 1
    /\ api.x509.san.entries[1].type = "GEN_EMAIL"
    /\ api.step = "legacy" /\ api.bio.bytes = <<233>>

\* C14: CryptoNative_CheckX509Hostname with a certificate and a hostname of positive
\* length that starts with '.' returns 0 and does not call X509_check_host, whatever the
\* certificate holds and whatever the library would have answered; for every other input
\* that passes the argument checks it returns what X509_check_host answers, called with
\* X509_CHECK_FLAG_NO_PARTIAL_WILDCARDS.
C14_LeadingDotRefused ==
    (/\ api.op = "CheckX509Hostname" /\ ~api.x509.null /\ api.cchHostname >= 0
     /\ ~(api.cchHostname > 0 /\ api.hostname.null))
       => IF api.cchHostname > 0 /\ api.hostname.chars[1] = 46
          THEN api.ret = 0 /\ ~api.invoked
          ELSE /\ api.invoked /\ api.ret = api.libResult
               /\ api.flags = "X509_CHECK_FLAG_NO_PARTIAL_WILDCARDS"
\* the hostname ".a" on a certificate for which the library would have answered 1
C14_Witness ==
    /\ api.op = "CheckX509Hostname" /\ ~api.x509.null
    /\ api.hostname.chars = <<46, 97>> /\ api.cchHostname = 2 /\ api.libResult = 1
    /\ api.ret = 0 /\ ~api.invoked

\* an IP entry of the subject alternative names holds exactly the bytes of the address
SanHoldsAddress(call) ==
    \E i \in DOMAIN call.x509.san.entries :
       /\ call.x509.san.entries[i].type = "GEN_IPADD"
       /\ Len(call.x509.san.entries[i].str.data) = call.addressBytesLen
       /\ call.x509.san.entries[i].str.data = call.addressBytes.bytes

\* C15: in CryptoNative_CheckX509IpAddress the subject alternative names produce the match
\* exactly when some entry is an IP entry of the length of the address with the same bytes:
\* entries of other types, IP entries with other bytes and IP entries of another length
\* (a 16-byte entry ending in the 4 bytes of the address) produce none.
C15_SanIpExactLengthAndBytes ==
    (api.op = "CheckX509IpAddress" /\ ValidQueryArgs(api))
       => /\ ~api.fallback <=> SanHoldsAddress(api)
          /\ SanHoldsAddress(api) => api.ret = 1
\* the address 10.0.0.1 against a 16-byte entry ending in 10.0.0.1 and the entry 10.0.0.2
C15_Witness ==
    /\ api.op = "CheckX509IpAddress" /\ api.addressBytes.bytes = <<10, 0, 0, 1>>
    /\ api.addressBytesLen = 4
    /\ Len(api.x509.san.entries) = 2
    /\ api.x509.san.entries[1].str.data = <<0, 0, 0, 0, 0, 0, 0, 0, 0, 0, 255, 255, 10, 0, 0, 1>>
    /\ api.x509.san.entries[2].str.data = <<10, 0, 0, 2>>
    /\ api.x509.san.entries[2].type = "GEN_IPADD"
    /\ api.x509.subject.entries = <<>>
    /\ api.fallback /\ api.ret = 0

\* two strings of the same length whose characters are equal up to the case of letters
SameIgnoringCase(a, b) ==
    /\ Len(a) = Len(b)
    /\ \A i \in DOMAIN a :
          \/ a[i] = b[i]
          \/ a[i] \in 65..90 /\ b[i] = a[i] + 32
          \/ b[i] \in 65..90 /\ a[i] = b[i] + 32

\* C16: when no IP entry of the subject alternative names matched (no extension, or none
\* of its entries matching), CryptoNative_CheckX509IpAddress answers 1 exactly when some
\* Common-Name of the Subject, at any position, has the length of the hostname and equals
\* it up to case (a Common-Name that is a prefix or an extension of the hostname, or another
\* attribute equal to it, does not count); and the Subject is not looked at when an IP
\* entry matched.
C16_CommonNameFallback ==
    (api.op = "CheckX509IpAddress" /\ ValidQueryArgs(api))
       => IF SanHoldsAddress(api) THEN ~api.fallback /\ api.ret = 1
          ELSE /\ api.fallback
               /\ api.ret = 1 <=>
                     \E i \in Positions(api.x509.subject.entries, "NID_commonName") :
                        /\ Len(api.x509.subject.entries[i].str.data) = api.cchHostname
                        /\ SameIgnoringCase(api.x509.subject.entries[i].str.data,
                                            api.hostname.chars)
               /\ api.ret \in {0, 1}
\* the hostname "ab" against the Common-Names "abc" and "AB", after an IP entry that differs
C16_Witness ==
    /\ api.op = "CheckX509IpAddress" /\ api.hostname.chars = <<97, 98>>
    /\ Len(api.x509.subject.entries) = 2
    /\ api.x509.subject.entries[1].oid = "NID_commonName"
    /\ api.x509.subject.entries[1].str.data = <<97, 98, 99>>
    /\ api.x509.subject.entries[2].oid = "NID_commonName"
    /\ api.x509.subject.entries[2].str.data = <<65, 66>>
    /\ api.x509.san.present /\ Len(api.x509.san.entries) = 1
    /\ api.x509.san.entries[1].str.data = <<10, 0, 0, 2>>
    /\ api.addressBytes.bytes = <<10, 0, 0, 1>>
    /\ api.fallback /\ api.ret = 1

\* the object of an accessor call is one the accessor can read bytes from
ValidObject(call) ==
    CASE call.op = "GetAsn1StringBytes" -> call.obj # NULLSTR
      [] call.op = "GetX509NameRawBytes" -> ~call.obj.null /\ call.obj.derOk
      [] OTHER -> ~call.obj.null /\ call.obj.key = "param" /\ call.obj.data # <<>>
\* the capacity the bytes of the object need
Required(call) == Len(call.obj.data)

\* C17 as stated: on a valid object a call with capacity 0 returns minus the required
\* capacity, the retry with that capacity returns a positive code equal to the number of
\* bytes copied, and a negative code is returned only when the capacity is too small.
C17_ProbeThenCopyLength ==
    (api.op \in AccessorNames /\ ValidObject(api))
       => /\ api.phase = "call" /\ api.cBuf = 0 => api.ret < 0 /\ 0 - api.ret = Required(api)
          /\ api.phase = "retry" => api.ret > 0 /\ api.ret = 0 - api.probed
          /\ api.ret < 0 => api.cBuf < Required(api)
\* C17 as amended: on a valid object that needs at least one byte a call with capacity 0
\* returns minus the required capacity; the retry with a buffer of that capacity returns 1
\* (not the length) after copying exactly that many bytes, the bytes of the object; a
\* negative code always has the required capacity as magnitude and is returned when the
\* capacity is too small or, for the typed-value and raw-name accessors, when the buffer
\* pointer is null; a typed value of length 0 is answered with 0 (null buffer) or 1.
C17_ProbeThenCopy ==
    (api.op \in AccessorNames /\ ValidObject(api))
       => /\ api.phase = "call" /\ api.cBuf = 0 /\ Required(api) > 0
                => api.ret = 0 - Required(api)
          /\ api.phase = "call" /\ api.cBuf = 0 /\ Required(api) = 0
                => api.ret = (IF api.pBufNull THEN 0 ELSE 1)
          /\ api.phase = "retry"
                => /\ api.ret = 1 /\ api.written = api.obj.data
                   /\ Len(api.written) = 0 - api.probed
          /\ api.ret < 0
                => /\ 0 - api.ret = Required(api)
                   /\ \/ api.cBuf < Required(api)
                      \/ api.pBufNull /\ api.op # "GetX509PublicKeyParameterBytes"
\* a raw name of two bytes, asked for with capacity 2 after the answer -2
C17_Witness ==
    /\ api.op = "GetX509NameRawBytes" /\ api.phase = "retry" /\ api.probed = 0 - 2
    /\ api.cBuf = 2 /\ api.ret = 1 /\ api.written = <<7, 8>>

\* C18: when EnsureOpenSsl10Initialized has returned (the thread is back in
\* EnsureOpenSslInitializedCore or beyond), g_initLock is free and ret is 0 or the code of
\* the step that failed: 1 for a lock count that is not positive, 2 when no array was
\* obtained (size overflow or malloc failure), 3 when a pthread_mutex_init failed (before
\* the callback was installed), 4 when RAND_poll failed (after it was); on failure g_locks
\* is NULL again, an array that was allocated has been freed once, exactly the mutexes
\* initialized before the failure have been destroyed, once each, and the others not at
\* all; and until the sequence ends nothing is destroyed or freed.
C18_LegacyFailureCleanup ==
    generation = "Legacy" =>
       /\ \A i \in DOMAIN locksMem.st : locksMem.destroys[i] <= 1
       /\ locksMem.frees <= 1
       /\ \A t \in Threads :
            /\ pc[t] \in {"l_mutex", "l_callback", "l_rand", "l_register"}
                 => /\ locksMem.frees = 0 /\ g_locks # NULL /\ g_initLock = t
                    /\ \A i \in DOMAIN locksMem.st : locksMem.destroys[i] = 0
            /\ pc[t] \in {"core_end", "once_end"}
                 => /\ g_initLock = 0
                    /\ core[t].ret \in 0..4
                    /\ core[t].ret = 1 <=> core[t].numLocks <= 0
                    /\ core[t].ret = 2 <=> core[t].numLocks > 0 /\ locksMem.n = 0
                    /\ core[t].ret = 3
                          <=> /\ locksMem.n > 0
                              /\ core[t].locksInitialized < core[t].numLocks
                    /\ core[t].ret = 3 => lib.lockingCallback = NULL
                    /\ core[t].ret = 4
                          <=> /\ locksMem.n > 0
                              /\ core[t].locksInitialized = core[t].numLocks
                              /\ lib.lockingCallback # NULL /\ lib.exRegs = <<>>
                    /\ IF core[t].ret # 0
                       THEN /\ g_locks = NULL
                            /\ locksMem.n > 0 => locksMem.frees = 1
                            /\ \A i \in DOMAIN locksMem.st :
                                 IF i < core[t].locksInitialized
                                 THEN locksMem.st[i] = "destroyed" /\ locksMem.destroys[i] = 1
                                 ELSE locksMem.st[i] = "raw" /\ locksMem.destroys[i] = 0
                       ELSE /\ g_locks # NULL /\ locksMem.frees = 0
                            /\ \A i \in DOMAIN locksMem.st :
                                 locksMem.st[i] = "init" /\ locksMem.destroys[i] = 0
       /\ once_control = "DONE" /\ g_initStatus # 0 => g_locks = NULL /\ g_initLock = 0
\* the second of two mutexes failed to initialize: the first is destroyed, the second not
C18_Witness ==
    /\ generation = "Legacy"
    /\ \E t \in Threads :
         /\ pc[t] = "core_end" /\ core[t].ret = 3
         /\ core[t].numLocks = 2 /\ core[t].locksInitialized = 1
    /\ locksMem.st[0] = "destroyed" /\ locksMem.st[1] = "raw"
    /\ locksMem.frees = 1 /\ g_locks = NULL /\ g_initLock = 0

\* the attribute the fallback of the Simple mode answers with: the first that the name
\* holds among OrganizationalUnit, Organization, Email, then any other attribute
FallbackKind(entries) ==
    IF Positions(entries, "NID_organizationalUnitName") # {} THEN "NID_organizationalUnitName"
    ELSE IF Positions(entries, "NID_organizationName") # {} THEN "NID_organizationName"
    ELSE IF Positions(entries, "NID_pkcs9_emailAddress") # {} THEN "NID_pkcs9_emailAddress"
    ELSE "NID_localityName"
\* a Simple query about a name that has entries, none of them a Common-Name
SimpleWithoutCommonName ==
    /\ api.op = "GetX509NameInfo" /\ api.nameType = NAME_TYPE_SIMPLE /\ ~api.x509.null
    /\ QueriedEntries(api) # <<>>
    /\ Positions(QueriedEntries(api), "NID_commonName") = {}

\* C19: a Simple query about a name that has at least one entry and no Common-Name is
\* answered from the name, with the value of an OrganizationalUnit entry if there is one,
\* else of an Organization entry, else of an Email entry, else of an unrecognized
\* attribute, names made up only of OrganizationalUnit, Organization and Email included.
C19_SimpleFallbackOrder ==
    SimpleWithoutCommonName
       => /\ api.step = "name" /\ ~api.bio.null
          /\ \E i \in Positions(QueriedEntries(api), FallbackKind(QueriedEntries(api))) :
                api.bio.bytes = TextOf(QueriedEntries(api)[i].str)

\* C20: when a Simple query is answered by the fallback (no Common-Name, and an
\* unrecognized attribute present so that the fallback is entered), the answer is the value
\* of the last-encoded entry of the answering kind, the one the reverse scan sees first.
C20_FallbackKeepsFirstSeen ==
    (SimpleWithoutCommonName /\ Positions(QueriedEntries(api), "NID_localityName") # {})
       => /\ api.step = "name" /\ ~api.bio.null
          /\ api.bio.bytes =
                TextOf(QueriedEntries(api)[Last(Positions(QueriedEntries(api),
                                                          FallbackKind(QueriedEntries(api))))].str)

\* C21: whenever the locking callback is installed in the library, g_locks points to the
\* allocated array and every slot the library can ask for is an initialized mutex that
\* has not been destroyed; so no installed callback is left over a freed or null array,
\* also after an initialization that failed.
C21_InstalledCallbackHasLiveLocks ==
    lib.lockingCallback # NULL
       => /\ g_locks # NULL /\ locksMem.frees = 0 /\ locksMem.n > 0
          /\ \A i \in DOMAIN locksMem.st :
                locksMem.st[i] \in {"init", "held"} /\ locksMem.destroys[i] = 0
====
